---- MODULE Spec2Model ----
(***************************************************************************)
(* EEF Manager: the tracker's status classification (renderTracker) and    *)
(* the automatic reviewer assignment (runAutoAssign) with its persistence  *)
(* through storage.saveProposalField / storage.saveAssignments.            *)
(*                                                                         *)
(* Three specifications share the variables:                               *)
(*   SpecStatus  the facts renderTracker reads are drawn from bounded sets *)
(*               and renderTracker is applied to them;                     *)
(*   SpecAssign  one runAutoAssign run over bounded datasets, date lists,  *)
(*               reviewer pools and counts, one proposal per step;         *)
(*   Spec        runAutoAssign with its asynchronous saves, overlapping    *)
(*               invocations, failures and row hiding.                     *)
(***************************************************************************)
EXTENDS Integers, Sequences, FiniteSets, TLC

VARIABLES
    tab,               \* app.activeTab: [exists, matchCol, data]; data is a sequence of rows
    assignments,       \* app.assignments: project -> sequence of reviewer names
    proposalDue,       \* app.proposalDue: project -> due date
    autoAssignConfig,  \* app.autoAssignConfig
    surveys,           \* app.surveys: sequence of submissions
    proposalAmounts,   \* app.proposalAmounts: project -> given amount
    proposalStatus,    \* app.proposalStatus: project -> funding status
    approved,          \* app.approved.data: sequence of approved records
    trkLabel,          \* status badge per row of #trk-body, as last rendered
    toast,             \* last message passed to notify()
    modalOpen,         \* #auto-assign-modal is shown
    run,               \* locals of the runAutoAssign invocation that is executing
    pending,           \* runAutoAssign invocations suspended at an await
    dbAssignments,     \* Firestore tabs/{id}/meta/assignments
    dbDue,             \* dueDate field of Firestore tabs/{id}/proposals/{project}
    entryMaps,         \* history: app.proposalDue and app.assignments as the latest
                       \* runAutoAssign invocation that passed validation found them
    dataset,           \* app.activeTab as the Data tab handles it: headers, cells,
                       \* matchColumn, matchColumnLocked, _matchHistory
    dbTab,             \* Firestore tabs/{id}: the dataset as storage.saveTab last wrote it
    matchOp,           \* the Data tab handler that acted last and whether the
                       \* user accepted its unlock confirm()
    speedIn,           \* arguments of the latest detectSpeedtypeFromRow call
    speedtype,         \* what that call returned
    exportIn,          \* what exportApproved reads: tab.data, the match column,
                       \* one approved record and the value of #ap-extra
    exportOut,         \* the "Speedtype" cell exportApproved writes for the record
    tabs,              \* app.tabs: the datasets of all cycles
    selectedId,        \* app.selectedId
    prevProject,       \* the project renderPreviousYears is called with
    prevMatches,       \* what renderPreviousYears shows in #dt-prev: [state, list]
    approveSaves,      \* #dt-approve handlers suspended at storage.saveApprovedData
    dbApproved,        \* rows of Firestore tabs/{id}/meta/approvedData
    approveBtn,        \* #dt-approve: the project its handler is bound to and
                       \* whether updateApproveButton last showed "Unapprove"
    sendInFlight,      \* tracker.js sendInFlight
    emailBtn,          \* #trk-email: [disabled, text]
    emailReq,          \* sendTrackerReminderEmails invocations suspended at an await
    detailOpen,        \* the overlay #detail is shown
    dtTitle,           \* text of #dt-title
    currentProject,    \* app._currentProject
    openCount,         \* openDetail calls made so far; each has its own closure
    openDetails,       \* openDetail invocations suspended at await renderPreviousYears
    saveBound,         \* the project the onclick of #dt-save-amount was bound for
    noteValue,         \* value of #dt-note
    noteBound,         \* the openDetail call whose oninput #dt-note carries (0: none)
    noteTimers,        \* pending autosave timers: [closure, val, typedFor, typedIn]
    proposalNotes,     \* app.proposalNotes: project -> note
    metaSaves,         \* storage.saveProposalField calls of the modal that are awaited
    dbMeta,            \* notes, givenAmount and fundingStatus fields of Firestore
                       \* tabs/{id}/proposals/{project}, keyed by <<id, project>>
    switches,          \* switchDataset invocations suspended at an await: [pc, id]
    clearSaves         \* clearAllAssignments invocations suspended at saveAssignments

matchVars == <<dataset, dbTab, matchOp>>

speedVars == <<speedIn, speedtype, exportIn, exportOut>>

prevVars == <<tabs, selectedId, prevProject, prevMatches>>

approveVars == <<approveSaves, dbApproved, approveBtn>>

emailVars == <<sendInFlight, emailBtn, emailReq>>

detailVars == <<detailOpen, dtTitle, currentProject, openCount, openDetails, saveBound,
                noteValue, noteBound, noteTimers, proposalNotes, metaSaves, dbMeta>>

loadVars == <<switches, clearSaves>>

\* the variables the tracker and the automatic assignment do not touch
restVars == <<matchVars, speedVars, prevVars, approveVars, emailVars, detailVars, loadVars>>

vars == <<tab, assignments, proposalDue, autoAssignConfig, surveys, proposalAmounts,
          proposalStatus, approved, trkLabel, toast, modalOpen, run, pending,
          dbAssignments, dbDue, entryMaps, restVars>>

(***************************************************************************)
(* Bounds                                                                  *)
(***************************************************************************)
MaxSurveys == 2        \* submissions in app.surveys (SpecStatus)
MaxAssignees == 2      \* assignees of a proposal (SpecStatus)
MaxAmount == 1         \* largest given amount (SpecStatus)

(***************************************************************************)
(* JavaScript objects used as maps: functions with a finite domain.        *)
(***************************************************************************)
EmptyMap == [k \in {} |-> 0]

Has(m, k) == k \in DOMAIN m

Put(m, k, v) == [x \in (DOMAIN m) \cup {k} |-> IF x = k THEN v ELSE m[x]]

Range(s) == {s[i] : i \in DOMAIN s}

Max2(a, b) == IF a >= b THEN a ELSE b

Min2(a, b) == IF a <= b THEN a ELSE b

\* [...new Set(seq)]: first occurrences, in order
Uniq(s) ==
    LET firsts == {i \in DOMAIN s : \A j \in 1..(i - 1) : s[j] # s[i]}
    IN [k \in 1..Cardinality(firsts) |->
           s[CHOOSE i \in firsts : Cardinality({j \in firsts : j < i}) = k - 1]]

\* s.filter(x => x \in keep)
FilterSeq(s, keep) == SelectSeq(s, LAMBDA x : x \in keep)

(***************************************************************************)
(* The dataset. A row is [name, hidden]: name is String(r[matchCol] ||     *)
(* "").trim(), hidden is r._hidden.                                        *)
(***************************************************************************)
NoTab == [exists |-> FALSE, matchCol |-> "", data |-> <<>>]

RowNames(data) == [i \in DOMAIN data |-> data[i].name]

VisibleNames(data) == {data[i].name : i \in {j \in DOMAIN data : ~data[j].hidden}}

\* tracker.js renderTracker: the projects listed, in order
trackerProjects(t) ==
    FilterSeq(Uniq(SelectSeq(RowNames(t.data), LAMBDA x : x # "")),
              VisibleNames(t.data))

(***************************************************************************)
(* renderTracker: the status of one project                                *)
(***************************************************************************)
\* a given amount: the empty string or a number
AmtEmpty == [t |-> "str", n |-> 0]

AmtNum(n) == [t |-> "num", n |-> n]

assignees(p) == IF Has(assignments, p) THEN assignments[p] ELSE <<>>

substantive(s) == s.overall # "" \/ s.lineItems # "" \/ s.funding # ""

notesCount(p) ==
    Cardinality({i \in DOMAIN surveys :
                    surveys[i].projectName = p /\ substantive(surveys[i])})

amountFilled_nonEmpty(p) ==
    /\ Has(proposalAmounts, p)
    /\ proposalAmounts[p] # AmtEmpty

amountFilled(p) ==
    /\ Has(proposalAmounts, p)
    /\ proposalAmounts[p] # AmtEmpty
    /\ proposalAmounts[p].t = "num" /\ proposalAmounts[p].n > 0

statusFilled(p) == Has(proposalStatus, p) /\ proposalStatus[p] # ""

approvedRec_any(p) == approved # <<>>

approvedRec(p) == \E i \in DOMAIN approved : approved[i] = p

Label_statusFirst(p) ==
    IF approvedRec(p) THEN "Approved"
    ELSE IF statusFilled(p) THEN "Waiting Approval"
    ELSE IF Len(assignees(p)) = 0 THEN "Unassigned"
    ELSE IF ~amountFilled(p) /\ ~statusFilled(p) /\ Len(assignees(p)) > 0
            /\ notesCount(p) >= Len(assignees(p)) THEN "Ready for Review"
    ELSE "Under Review"

Label(p) ==
    IF approvedRec(p) THEN "Approved"
    ELSE IF Len(assignees(p)) = 0 THEN "Unassigned"
    ELSE IF ~amountFilled(p) /\ ~statusFilled(p) /\ Len(assignees(p)) > 0
            /\ notesCount(p) >= Len(assignees(p)) THEN "Ready for Review"
    ELSE IF statusFilled(p) THEN "Waiting Approval"
    ELSE "Under Review"

\* the status column of the table renderTracker builds
trackerLabels == [p \in Range(trackerProjects(tab)) |-> Label(p)]

RenderTracker ==
    /\ tab.exists
    /\ run.pc = "idle"
    /\ trkLabel' = trackerLabels
    /\ UNCHANGED restVars
    /\ UNCHANGED <<tab, assignments, proposalDue, autoAssignConfig, surveys,
                   proposalAmounts, proposalStatus, approved, toast, modalOpen,
                   run, pending, dbAssignments, dbDue, entryMaps>>

(***************************************************************************)
(* SpecStatus: the facts renderTracker reads, drawn from bounded sets      *)
(***************************************************************************)
StatusProjects == {"A", "B"}

StatusReviewers == <<"X", "Y", "Z", "W">>

\* maps with at most one key
SmallMaps(keys, vals) ==
    {EmptyMap} \cup {Put(EmptyMap, k, v) : k \in keys, v \in vals}

SurveyKinds ==
    { [overall |-> "", lineItems |-> "", funding |-> ""],
      [overall |-> "ok", lineItems |-> "", funding |-> ""],
      [overall |-> "", lineItems |-> "ok", funding |-> ""],
      [overall |-> "", lineItems |-> "", funding |-> "ok"] }

SurveyVals ==
    {[projectName |-> p, overall |-> k.overall, lineItems |-> k.lineItems,
      funding |-> k.funding] : p \in StatusProjects, k \in SurveyKinds}

\* a fixed order on submissions: lists that differ only in order are drawn once
SurveyRank(s) ==
    (IF s.projectName = "A" THEN 0 ELSE 4)
    + (IF s.overall # "" THEN 1 ELSE IF s.lineItems # "" THEN 2
       ELSE IF s.funding # "" THEN 3 ELSE 0)

SurveyLists ==
    UNION {{s \in [1..n -> SurveyVals] :
               \A i \in 1..(n - 1) : SurveyRank(s[i]) <= SurveyRank(s[i + 1])}
           : n \in 0..MaxSurveys}

NoRun == [pc |-> "idle"]

NoDataset == [exists |-> FALSE]

NoCall == [called |-> FALSE]

NoOp == [op |-> "", unlockConfirmed |-> FALSE]

\* #dt-approve before the detail modal was opened
NoButton == [project |-> "", approved |-> FALSE]

\* #dt-prev before renderPreviousYears has run
NoPrev == [state |-> "idle", list |-> <<>>]

EmailBtnIdle == [disabled |-> FALSE, text |-> "Email Reminders"]

\* no proposal document holds a note, an amount or a status
NoMeta == [notes |-> EmptyMap, amounts |-> EmptyMap, status |-> EmptyMap]

\* the state of the parts of the application a specification leaves alone
InitMatchVars ==
    /\ dataset = NoDataset
    /\ dbTab = NoDataset
    /\ matchOp = NoOp

InitSpeedVars ==
    /\ speedIn = NoCall
    /\ speedtype = <<>>
    /\ exportIn = NoCall
    /\ exportOut = <<>>

InitPrevVars ==
    /\ tabs = <<>>
    /\ selectedId = ""
    /\ prevProject = <<>>
    /\ prevMatches = NoPrev

InitApproveVars ==
    /\ approveSaves = <<>>
    /\ dbApproved = <<>>
    /\ approveBtn = NoButton

InitEmailVars ==
    /\ sendInFlight = FALSE
    /\ emailBtn = EmailBtnIdle
    /\ emailReq = <<>>

InitDetailVars ==
    /\ detailOpen = FALSE
    /\ dtTitle = ""
    /\ currentProject = ""
    /\ openCount = 0
    /\ openDetails = <<>>
    /\ saveBound = ""
    /\ noteValue = ""
    /\ noteBound = 0
    /\ noteTimers = <<>>
    /\ proposalNotes = EmptyMap
    /\ metaSaves = <<>>
    /\ dbMeta = NoMeta

InitLoadVars ==
    /\ switches = <<>>
    /\ clearSaves = <<>>

InitRest ==
    /\ InitMatchVars
    /\ InitSpeedVars
    /\ InitPrevVars
    /\ InitApproveVars
    /\ InitEmailVars
    /\ InitDetailVars
    /\ InitLoadVars

\* the tracker state of an application with no dataset, nothing assigned and
\* nothing running
InitIdle ==
    /\ tab = NoTab
    /\ assignments = EmptyMap
    /\ proposalDue = EmptyMap
    /\ autoAssignConfig = [meetingDates |-> <<>>, reviewerCount |-> 2, reviewerPool |-> <<>>]
    /\ proposalAmounts = EmptyMap
    /\ proposalStatus = EmptyMap
    /\ approved = <<>>
    /\ trkLabel = EmptyMap
    /\ toast = ""
    /\ modalOpen = FALSE
    /\ run = NoRun
    /\ pending = <<>>
    /\ dbAssignments = EmptyMap
    /\ dbDue = EmptyMap
    /\ entryMaps = [due |-> EmptyMap, assignments |-> EmptyMap]

InitStatus ==
    /\ tab = [exists |-> TRUE, matchCol |-> "Project Name",
              data |-> <<[name |-> "A", hidden |-> FALSE],
                         [name |-> "B", hidden |-> FALSE]>>]
    /\ assignments \in SmallMaps(StatusProjects,
                          {SubSeq(StatusReviewers, 1, n) : n \in 0..MaxAssignees})
    /\ surveys \in SurveyLists
    /\ proposalAmounts \in SmallMaps(StatusProjects,
                              {AmtEmpty} \cup {AmtNum(n) : n \in 0..MaxAmount})
    /\ proposalStatus \in UNION {[d -> {"", "partial"}] : d \in SUBSET StatusProjects}
    /\ approved \in {<<>>, <<"A">>, <<"B">>, <<"A", "B">>}
    /\ trkLabel = EmptyMap
    /\ proposalDue = EmptyMap
    /\ autoAssignConfig = [meetingDates |-> <<>>, reviewerCount |-> 2, reviewerPool |-> <<>>]
    /\ toast = ""
    /\ modalOpen = FALSE
    /\ run = NoRun
    /\ pending = <<>>
    /\ dbAssignments = EmptyMap
    /\ dbDue = EmptyMap
    /\ entryMaps = [due |-> EmptyMap, assignments |-> EmptyMap]
    /\ InitRest

NextStatus == RenderTracker

SpecStatus == InitStatus /\ [][NextStatus]_vars

(***************************************************************************)
(* runAutoAssign: reading the form                                         *)
(***************************************************************************)
DEFAULT_REVIEWERS ==
    <<"Bianca", "Chloe", "Abel", "Reid", "Julianna", "Ayushi", "Jake", "Trinity",
      "Josh", "Amy">>

\* the value of #auto-count as parseInt sees it: not a number, or an integer
NaN == [ok |-> FALSE, n |-> 0]

Num(n) == [ok |-> TRUE, n |-> n]

\* Math.max(1, parseInt($("auto-count").value, 10) || 2)
reviewerCountOf(c) == Max2(1, IF c.ok /\ c.n # 0 THEN c.n ELSE 2)

\* the lines of #auto-reviewers, trimmed, without the empty ones
reviewerPoolOf(raw) == SelectSeq(raw, LAMBDA x : x # "")

RECURSIVE SortSet(_)
\* the elements of a finite set of integers in increasing order
SortSet(S) ==
    IF S = {} THEN <<>>
    ELSE LET m == CHOOSE x \in S : \A y \in S : x <= y
         IN <<m>> \o SortSet(S \ {m})

\* A line of #auto-dates is a token: 0 when neither toLocalYMD(line) nor
\* toLocalYMD(new Date(line)) yields a date, else the day it names.
\* Array.from(new Set(...filter(Boolean))).sort()
meetingDatesOf(rawDates) == SortSet(Range(rawDates) \ {0})

\* the visible projects, in row order
projectsOf(t) ==
    LET shown == SelectSeq(t.data, LAMBDA r : ~r.hidden)
        names == SelectSeq(RowNames(shown), LAMBDA x : x # "")
    IN Uniq(names)

noDates(meetingDates) == Len(meetingDates) = 0

poolTooSmall(reviewerPool, reviewerCount) == Len(reviewerPool) < reviewerCount

noProjects_never(projects) == FALSE

noProjects(projects) == Len(projects) = 0

chunkSize_floor(P, D) == Max2(1, P \div D)

\* Math.max(1, Math.ceil(projects.length / meetingDates.length))
chunkSize(P, D) == Max2(1, (P + D - 1) \div D)

(***************************************************************************)
(* getNextCombo                                                            *)
(***************************************************************************)
\* the comparator of scored.sort: a sorts before b
Less_highestLoad(a, b) ==
    IF a.load # b.load THEN a.load > b.load ELSE a.order < b.order

Less(a, b) ==
    IF a.load # b.load THEN a.load < b.load ELSE a.order < b.order

scored_noRotation(reviewerPool, assignCounts, rotateOffset) ==
    [i \in DOMAIN reviewerPool |->
        [name |-> reviewerPool[i],
         load |-> assignCounts[reviewerPool[i]],
         order |-> i - 1]]

scored(reviewerPool, assignCounts, rotateOffset) ==
    [i \in DOMAIN reviewerPool |->
        [name |-> reviewerPool[i],
         load |-> assignCounts[reviewerPool[i]],
         order |-> ((i - 1) + rotateOffset) % Len(reviewerPool)]]

\* scored after scored.sort(...): the orders are distinct, so the order is total
sortedScored(sc) ==
    [r \in DOMAIN sc |->
        sc[CHOOSE i \in DOMAIN sc :
              Cardinality({j \in DOMAIN sc : Less(sc[j], sc[i])}) = r - 1]]

\* scored.slice(0, reviewerCount).map(s => s.name)
chosenOf(reviewerPool, assignCounts, rotateOffset, reviewerCount) ==
    LET ss == sortedScored(scored(reviewerPool, assignCounts, rotateOffset))
    IN [r \in 1..Min2(reviewerCount, Len(ss)) |-> ss[r].name]

\* chosen.forEach(n => assignCounts[n] = (assignCounts[n] || 0) + 1)
bumpCounts(assignCounts, chosen) ==
    [n \in DOMAIN assignCounts |->
        assignCounts[n] + Cardinality({r \in DOMAIN chosen : chosen[r] = n})]

(***************************************************************************)
(* runAutoAssign, up to its first await                                    *)
(***************************************************************************)
MaxInflight == 2       \* runAutoAssign invocations suspended at an await

ErrNoDates == "Please enter at least one meeting date."

ErrPool == "Reviewer pool must be at least the reviewers-per-proposal value."

ErrNoTab == "No dataset selected."

ErrNoMatch == "No match column available."

ErrNoProjects == "No visible projects to assign."

MsgDone == "Automatic assignment completed."

OpenAutoAssignModal ==
    /\ run.pc = "idle"
    /\ ~modalOpen
    /\ modalOpen' = TRUE
    /\ autoAssignConfig' =
          IF Len(autoAssignConfig.reviewerPool) = 0
          THEN [autoAssignConfig EXCEPT !.reviewerPool = DEFAULT_REVIEWERS]
          ELSE autoAssignConfig
    /\ UNCHANGED restVars
    /\ UNCHANGED <<tab, assignments, proposalDue, surveys, proposalAmounts,
                   proposalStatus, approved, trkLabel, toast, run, pending,
                   dbAssignments, dbDue, entryMaps>>

CloseAutoAssignModal ==
    /\ run.pc = "idle"
    /\ modalOpen
    /\ modalOpen' = FALSE
    /\ UNCHANGED restVars
    /\ UNCHANGED <<tab, assignments, proposalDue, autoAssignConfig, surveys,
                   proposalAmounts, proposalStatus, approved, trkLabel, toast, run,
                   pending, dbAssignments, dbDue, entryMaps>>

\* The click on #auto-run: the form is read and validated; a valid form
\* starts the loop over the projects.
RunAutoAssign(rawDates, countInput, poolRaw) ==
    /\ run.pc = "idle"
    /\ modalOpen
    /\ Len(pending) < MaxInflight
    /\ LET reviewerCount == reviewerCountOf(countInput)
           reviewerPool == reviewerPoolOf(poolRaw)
           meetingDates == meetingDatesOf(rawDates)
           projects == projectsOf(tab)
           fail(msg) == toast' = msg /\ run' = run /\ entryMaps' = entryMaps
       IN IF noDates(meetingDates) THEN fail(ErrNoDates)
          ELSE IF poolTooSmall(reviewerPool, reviewerCount) THEN fail(ErrPool)
          ELSE IF ~tab.exists THEN fail(ErrNoTab)
          ELSE IF tab.matchCol = "" THEN fail(ErrNoMatch)
          ELSE IF noProjects(projects) THEN fail(ErrNoProjects)
          ELSE /\ run' = [pc |-> "loop",
                          rawDates |-> rawDates,
                          meetingDates |-> meetingDates,
                          reviewerCount |-> reviewerCount,
                          reviewerPool |-> reviewerPool,
                          projects |-> projects,
                          chunkSize |-> chunkSize(Len(projects), Len(meetingDates)),
                          currentDateIndex |-> 0,
                          chunkCounter |-> 0,
                          assignCounts |-> [n \in Range(reviewerPool) |-> 0],
                          rotateOffset |-> 0,
                          newAssignments |-> EmptyMap,
                          dueSaves |-> <<>>,
                          i |-> 1]
               /\ toast' = toast
               /\ entryMaps' = [due |-> proposalDue, assignments |-> assignments]
    /\ UNCHANGED restVars
    /\ UNCHANGED <<tab, assignments, proposalDue, autoAssignConfig, surveys,
                   proposalAmounts, proposalStatus, approved, trkLabel, modalOpen,
                   pending, dbAssignments, dbDue>>

\* One iteration of projects.forEach
AssignProject ==
    /\ run.pc = "loop"
    /\ run.i <= Len(run.projects)
    /\ LET project == run.projects[run.i]
           advance == /\ run.chunkCounter >= run.chunkSize
                      /\ run.currentDateIndex < Len(run.meetingDates) - 1
           currentDateIndex == IF advance THEN run.currentDateIndex + 1
                               ELSE run.currentDateIndex
           chunkCounter == (IF advance THEN 0 ELSE run.chunkCounter) + 1
           dueDate == run.meetingDates[currentDateIndex + 1]
           reviewers == chosenOf(run.reviewerPool, run.assignCounts,
                                 run.rotateOffset, run.reviewerCount)
       IN /\ run' = [run EXCEPT
                        !.currentDateIndex = currentDateIndex,
                        !.chunkCounter = chunkCounter,
                        !.assignCounts = bumpCounts(run.assignCounts, reviewers),
                        !.rotateOffset = (run.rotateOffset + 1) % Len(run.reviewerPool),
                        !.newAssignments = Put(run.newAssignments, project, reviewers),
                        !.dueSaves = Append(run.dueSaves,
                                            [project |-> project, dueDate |-> dueDate]),
                        !.i = run.i + 1]
          /\ proposalDue' = Put(proposalDue, project, dueDate)
    /\ UNCHANGED restVars
    /\ UNCHANGED <<tab, assignments, autoAssignConfig, surveys, proposalAmounts,
                   proposalStatus, approved, trkLabel, toast, modalOpen, pending,
                   dbAssignments, dbDue, entryMaps>>

\* await Promise.all(dueSaves): the handler is suspended
AwaitDueSaves ==
    /\ run.pc = "loop"
    /\ run.i > Len(run.projects)
    /\ pending' = Append(pending, [run EXCEPT !.pc = "dueSaves"])
    /\ run' = NoRun
    /\ UNCHANGED restVars
    /\ UNCHANGED <<tab, assignments, proposalDue, autoAssignConfig, surveys,
                   proposalAmounts, proposalStatus, approved, trkLabel, toast,
                   modalOpen, dbAssignments, dbDue, entryMaps>>

(***************************************************************************)
(* storage.js over Firestore                                               *)
(***************************************************************************)
\* doc("assignments").set(a, {merge: true}): the fields of a replace the
\* fields of the same name, the other fields of the document stay
saveAssignments(db, a) ==
    [p \in (DOMAIN db) \cup (DOMAIN a) |-> IF p \in DOMAIN a THEN a[p] ELSE db[p]]

\* doc.exists ? doc.data() : {}
loadAssignments(db) == db

\* the saveProposalField writes of dueSaves whose index is in landed, applied
\* in order: the last write to a document decides its dueDate
applyDueSaves(db, dueSaves, landed) ==
    LET written == {dueSaves[n].project : n \in landed}
        lastWrite(p) == CHOOSE n \in landed :
                            /\ dueSaves[n].project = p
                            /\ \A m \in landed : dueSaves[m].project = p => m <= n
    IN [p \in (DOMAIN db) \cup written |->
           IF p \in written THEN dueSaves[lastWrite(p)].dueDate ELSE db[p]]

(***************************************************************************)
(* runAutoAssign after its awaits. Firestore acknowledges writes in the    *)
(* order they were issued, so the suspended invocations form a queue.      *)
(***************************************************************************)
\* Promise.all(dueSaves) resolves: every due date is stored; the handler
\* goes on to storage.saveAssignments and is suspended again
DueSavesResolve ==
    /\ run.pc = "idle"
    /\ pending # <<>>
    /\ Head(pending).pc = "dueSaves"
    /\ dbDue' = applyDueSaves(dbDue, Head(pending).dueSaves,
                              DOMAIN Head(pending).dueSaves)
    /\ pending' = Append(Tail(pending), [Head(pending) EXCEPT !.pc = "saveAssignments"])
    /\ UNCHANGED restVars
    /\ UNCHANGED <<tab, assignments, proposalDue, autoAssignConfig, surveys,
                   proposalAmounts, proposalStatus, approved, trkLabel, toast,
                   modalOpen, run, dbAssignments, entryMaps>>

\* Promise.all(dueSaves) rejects: some saveProposalField failed, the writes
\* in landed were stored; the rejection leaves runAutoAssign
DueSavesReject(landed) ==
    /\ run.pc = "idle"
    /\ pending # <<>>
    /\ Head(pending).pc = "dueSaves"
    /\ landed \subseteq DOMAIN Head(pending).dueSaves
    /\ landed # DOMAIN Head(pending).dueSaves
    /\ dbDue' = applyDueSaves(dbDue, Head(pending).dueSaves, landed)
    /\ pending' = Tail(pending)
    /\ UNCHANGED restVars
    /\ UNCHANGED <<tab, assignments, proposalDue, autoAssignConfig, surveys,
                   proposalAmounts, proposalStatus, approved, trkLabel, toast,
                   modalOpen, run, dbAssignments, entryMaps>>

\* storage.saveAssignments resolves: the rest of the handler runs
SaveAssignmentsResolve ==
    /\ run.pc = "idle"
    /\ pending # <<>>
    /\ Head(pending).pc = "saveAssignments"
    /\ dbAssignments' = saveAssignments(dbAssignments, Head(pending).newAssignments)
    /\ assignments' = Head(pending).newAssignments
    /\ autoAssignConfig' = [meetingDates |-> Head(pending).meetingDates,
                            reviewerCount |-> Head(pending).reviewerCount,
                            reviewerPool |-> Head(pending).reviewerPool]
    /\ modalOpen' = FALSE
    /\ toast' = MsgDone
    /\ pending' = Tail(pending)
    /\ UNCHANGED restVars
    /\ UNCHANGED <<tab, proposalDue, surveys, proposalAmounts, proposalStatus,
                   approved, run, dbDue, entryMaps>>
    /\ trkLabel' = trackerLabels'

\* storage.saveAssignments rejects: the rejection leaves runAutoAssign
SaveAssignmentsReject ==
    /\ run.pc = "idle"
    /\ pending # <<>>
    /\ Head(pending).pc = "saveAssignments"
    /\ pending' = Tail(pending)
    /\ UNCHANGED restVars
    /\ UNCHANGED <<tab, assignments, proposalDue, autoAssignConfig, surveys,
                   proposalAmounts, proposalStatus, approved, trkLabel, toast,
                   modalOpen, run, dbAssignments, dbDue, entryMaps>>

(***************************************************************************)
(* Data tab: hide or unhide a row                                          *)
(***************************************************************************)
\* app_toggleHideDataRow; saved tells whether storage.saveTab succeeded. The
\* success messages are kept without the row number.
ToggleHideDataRow(rowIndex, saved) ==
    /\ run.pc = "idle"
    /\ tab.exists
    /\ rowIndex \in DOMAIN tab.data
    /\ tab' = [tab EXCEPT !.data[rowIndex].hidden = ~tab.data[rowIndex].hidden]
    /\ toast' = IF ~saved THEN "Failed to update row visibility. Check console for details."
                ELSE IF tab'.data[rowIndex].hidden THEN "Row hidden." ELSE "Row unhidden."
    /\ UNCHANGED restVars
    /\ UNCHANGED <<assignments, proposalDue, autoAssignConfig, surveys,
                   proposalAmounts, proposalStatus, approved, modalOpen, run, pending,
                   dbAssignments, dbDue, entryMaps>>
    /\ trkLabel' = IF saved THEN trackerLabels' ELSE trkLabel

(***************************************************************************)
(* Spec: runAutoAssign with its saves, on one dataset                      *)
(***************************************************************************)
SpecRawDates == {<<0>>, <<1>>}

SpecCounts == {NaN}

SpecPools == {<<"X">>, <<"X", "Y">>}

SpecTabs ==
    { NoTab,
      [exists |-> TRUE, matchCol |-> "", data |-> <<>>],
      [exists |-> TRUE, matchCol |-> "Project Name",
       data |-> <<[name |-> "A", hidden |-> FALSE], [name |-> "B", hidden |-> FALSE]>>] }

InitApp ==
    /\ assignments = EmptyMap
    /\ proposalDue = EmptyMap
    /\ autoAssignConfig = [meetingDates |-> <<>>, reviewerCount |-> 2, reviewerPool |-> <<>>]
    /\ surveys = <<>>
    /\ proposalAmounts = EmptyMap
    /\ proposalStatus = EmptyMap
    /\ approved = <<>>
    /\ trkLabel = EmptyMap
    /\ toast = ""
    /\ modalOpen = FALSE
    /\ run = NoRun
    /\ pending = <<>>
    /\ dbAssignments = EmptyMap
    /\ dbDue = EmptyMap
    /\ entryMaps = [due |-> EmptyMap, assignments |-> EmptyMap]
    /\ InitRest

Init ==
    /\ tab \in SpecTabs
    /\ InitApp

Next ==
    \/ OpenAutoAssignModal
    \/ CloseAutoAssignModal
    \/ \E d \in SpecRawDates, c \in SpecCounts, r \in SpecPools : RunAutoAssign(d, c, r)
    \/ AssignProject
    \/ AwaitDueSaves
    \/ DueSavesResolve
    \/ \E landed \in SUBSET (1..Len(tab.data)) : DueSavesReject(landed)
    \/ SaveAssignmentsResolve
    \/ SaveAssignmentsReject
    \/ \E i \in 1..Len(tab.data), saved \in BOOLEAN : ToggleHideDataRow(i, saved)

Spec == Init /\ [][Next]_vars

(***************************************************************************)
(* SpecAssign: one run over bounded datasets, dates, pools and counts      *)
(***************************************************************************)
MaxRows == 4           \* visible projects of a dataset (SpecAssign)
MaxDates == 3          \* distinct meeting dates entered (SpecAssign)
MaxCount == 2          \* largest value typed into #auto-count (SpecAssign)
MaxPool == 3           \* names typed into #auto-reviewers (SpecAssign)

ProjectNames(n) == SubSeq(<<"P1", "P2", "P3", "P4", "P5", "P6">>, 1, n)

PoolNames(i) == <<"R1", "R2", "R3", "R4", "R5", "R6">>[i]

row(name, hidden) == [name |-> name, hidden |-> hidden]

\* n visible projects; with a second row of the first project; behind a
\* hidden row; behind a row whose match cell is blank
AssignTabs ==
    UNION {
        LET base == [i \in 1..n |-> row(ProjectNames(n)[i], FALSE)]
        IN {[exists |-> TRUE, matchCol |-> "Project Name", data |-> d] :
               d \in {base,
                      IF n > 0 THEN Append(base, row(ProjectNames(n)[1], FALSE)) ELSE base,
                      <<row("P0", TRUE)>> \o base,
                      <<row("", FALSE)>> \o base}}
        : n \in 0..MaxRows}

RECURSIVE Reverse(_)
Reverse(s) == IF s = <<>> THEN <<>> ELSE Append(Reverse(Tail(s)), Head(s))

\* d dates entered latest first, then a line that is no date, then the
\* first date once more
AssignRawDates ==
    {Reverse([i \in 1..d |-> i]) \o <<0>> \o (IF d > 0 THEN <<1>> ELSE <<>>) :
        d \in 0..MaxDates}

AssignCounts == {NaN} \cup {Num(n) : n \in (-1)..MaxCount}

\* the lists of names up to renaming: a name not seen yet is the next name
AssignPools ==
    LET shapes == UNION {{s \in [1..n -> 1..n] :
                             \A i \in 1..n :
                                 \A v \in 2..s[i] : \E j \in 1..(i - 1) : s[j] = v - 1}
                         : n \in 0..MaxPool}
        named == {[i \in DOMAIN s |-> PoolNames(s[i])] : s \in shapes}
    IN named \cup {Append(p, "") : p \in {q \in named : Len(q) <= 1}}

InitAssign ==
    /\ tab \in AssignTabs
    /\ InitApp

NextAssign ==
    \/ OpenAutoAssignModal
    \/ \E d \in AssignRawDates, c \in AssignCounts, r \in AssignPools :
          /\ proposalDue = EmptyMap
          /\ pending = <<>>
          /\ RunAutoAssign(d, c, r)
    \/ AssignProject
    \/ AwaitDueSaves

SpecAssign == InitAssign /\ [][NextAssign]_vars

(***************************************************************************)
(* Data tab: autoDetectMatchColumn. Cells and headers are strings of a     *)
(* small vocabulary; the string tests of the code are evaluated on it.     *)
(***************************************************************************)
\* String.prototype.toLowerCase on the cell vocabulary
toLowerCase(v) == IF v = "Alpha" THEN "alpha" ELSE v

\* utils looksLikeUrl: "https://x.org/a" starts with a protocol
looksLikeUrl(v) == v = "https://x.org/a"

\* utils looksLikeFilename: "plan.pdf" ends with an extension,
\* "https://x.org/a" holds a "/"
looksLikeFilename(v) == v \in {"plan.pdf", "https://x.org/a"}

\* nameHints.some(hint => lname.includes(hint)) on the header vocabulary:
\* "project name" holds "project name", "title" holds "title"; "budget",
\* "attachment" and "column 1" hold no hint
hasNameHint(h) == h \in {"Project Name", "Title"}

\* rows.map(r => String(r[col] ?? "").trim())
columnValues(t, col) == [i \in DOMAIN t.data |-> t.data[i][col]]

nonEmptyOf(values) == SelectSeq(values, LAMBDA v : v # "")

\* surveySet
surveySetOf(svs) == {toLowerCase(svs[i].projectName) : i \in DOMAIN svs} \ {""}

nameBonus_none(h) == 0

nameBonus(h) == IF hasNameHint(h) THEN 1200 ELSE 0

\* The entry of scores for header col. The ratios are fractions: score is
\* kept as num/den with den = max(1, |surveySet|) * max(1, |nonEmpty|) *
\* max(1, |values|), fileLikeRatio as fileLike/max(1, |nonEmpty|).
scoreOf(t, svs, col) ==
    LET values == columnValues(t, col)
        nonEmpty == nonEmptyOf(values)
        ne == Len(nonEmpty)
        n1 == Max2(1, Len(values))
        ne1 == Max2(1, ne)
        uniq == Cardinality(Range(nonEmpty))
        surveySet == surveySetOf(svs)
        s1 == Max2(1, Cardinality(surveySet))
        lower == {toLowerCase(nonEmpty[i]) : i \in DOMAIN nonEmpty}
        surveyMatches == IF surveySet # {} /\ ne > 0
                         THEN Cardinality(surveySet \cap lower) ELSE 0
        fileLikeCount == Len(SelectSeq(nonEmpty,
                             LAMBDA v : looksLikeFilename(v) \/ looksLikeUrl(v)))
    IN [header |-> col,
        num |-> nameBonus(col) * s1 * ne1 * n1
                + 300 * surveyMatches * ne1 * n1
                + 120 * uniq * s1 * n1
                + 80 * ne * s1 * ne1
                - 800 * fileLikeCount * s1 * n1,
        den |-> s1 * ne1 * n1,
        fileLike |-> fileLikeCount,
        nonEmpty |-> ne1]

scoreGreater_never(a, b) == FALSE

\* a.score > b.score
scoreGreater(a, b) == a.num * b.den > b.num * a.den

\* scores.sort((a, b) => b.score - a.score): the sort is stable, entries of
\* equal score keep the order of the headers
sortedScores(sc) ==
    [r \in DOMAIN sc |->
        sc[CHOOSE i \in DOMAIN sc :
              Cardinality({j \in DOMAIN sc :
                              \/ scoreGreater(sc[j], sc[i])
                              \/ (~scoreGreater(sc[i], sc[j]) /\ j < i)}) = r - 1]]

extremelyFileLike_never(best) == FALSE

\* best.fileLikeRatio > 0.6
extremelyFileLike(best) == best.fileLike * 10 > 6 * best.nonEmpty

autoDetectMatchColumn(t, svs) ==
    LET scores == sortedScores([i \in DOMAIN t.headers |-> scoreOf(t, svs, t.headers[i])])
        best == scores[1]
        lowFile == {i \in DOMAIN scores : scores[i].fileLike * 10 < 3 * scores[i].nonEmpty}
        alt == scores[CHOOSE i \in lowFile : \A j \in lowFile : i <= j]
    IN IF Len(t.headers) = 0 THEN ""
       ELSE IF extremelyFileLike(best)
                /\ "Project Name" \in Range(t.headers) THEN "Project Name"
       ELSE IF extremelyFileLike(best) /\ lowFile # {} THEN alt.header
       ELSE IF best.num > 5 * best.den THEN best.header
       ELSE t.headers[1]

(***************************************************************************)
(* Data tab: uploadXLSX                                                    *)
(***************************************************************************)
\* detected || (headers.includes("Project Name") ? "Project Name" : headers[0]);
\* undefined is kept as ""
detectedOrDefault(t, svs) ==
    LET detected == autoDetectMatchColumn(t, svs)
    IN IF detected # "" THEN detected
       ELSE IF "Project Name" \in Range(t.headers) THEN "Project Name"
       ELSE IF Len(t.headers) > 0 THEN t.headers[1]
       ELSE ""

MsgUploaded == "Upload complete (match column auto-detected and locked)"

\* ws is what parseWorksheet returned: [headers, data]. saved tells whether
\* storage.saveTab succeeded; when it fails the handler is left before the
\* new dataset becomes the active one.
UploadXLSX(ws, saved) ==
    /\ run.pc = "idle"
    /\ IF saved
       THEN /\ dataset' = [exists |-> TRUE,
                           headers |-> ws.headers,
                           data |-> ws.data,
                           matchColumn |-> detectedOrDefault(ws, surveys),
                           matchColumnLocked |-> TRUE,
                           matchHistory |-> <<>>]
            /\ dbTab' = dataset'
            /\ matchOp' = [op |-> "uploadXLSX", unlockConfirmed |-> FALSE]
            /\ toast' = MsgUploaded
       ELSE UNCHANGED <<dataset, dbTab, matchOp, toast>>
    /\ UNCHANGED <<tab, assignments, proposalDue, autoAssignConfig, surveys,
                   proposalAmounts, proposalStatus, approved, trkLabel, modalOpen,
                   run, pending, dbAssignments, dbDue, entryMaps>>
    /\ UNCHANGED <<speedVars, prevVars, approveVars, emailVars, detailVars, loadVars>>

(***************************************************************************)
(* Data tab: replaceXLSX, setMatchColumn and the Lock / Unlock button      *)
(***************************************************************************)
MsgReplaced == "Dataset replaced (match column auto-detected and locked)"

\* The active dataset is changed in place (headers, data, matchColumn,
\* matchColumnLocked; _matchHistory is not touched) before storage.saveTab is
\* awaited: a failed save leaves the changed dataset in memory.
ReplaceXLSX(ws, saved) ==
    /\ run.pc = "idle"
    /\ dataset.exists
    /\ dataset' = [dataset EXCEPT !.headers = ws.headers,
                                  !.data = ws.data,
                                  !.matchColumn = detectedOrDefault(ws, surveys),
                                  !.matchColumnLocked = TRUE]
    /\ matchOp' = [op |-> "replaceXLSX", unlockConfirmed |-> FALSE]
    /\ IF saved
       THEN dbTab' = dataset' /\ toast' = MsgReplaced
       ELSE UNCHANGED <<dbTab, toast>>
    /\ UNCHANGED <<tab, assignments, proposalDue, autoAssignConfig, surveys,
                   proposalAmounts, proposalStatus, approved, trkLabel, modalOpen,
                   run, pending, dbAssignments, dbDue, entryMaps>>
    /\ UNCHANGED <<speedVars, prevVars, approveVars, emailVars, detailVars, loadVars>>

columnFound_always(t, column) == TRUE

\* tab.headers.includes(column)
columnFound(t, column) == column \in Range(t.headers)

MsgColumnNotFound(column) == "Column \"" \o column \o "\" not found in dataset headers."

MsgMatchSet(column) == "Match column set to \"" \o column \o "\""

MsgMatchSaveFailed == "Failed to save match column (see console)."

\* nonEmptyRatio < 0.05, with nonEmptyRatio = nonEmpty / max(1, values)
mostlyEmpty(values) == 100 * Len(nonEmptyOf(values)) < 5 * Max2(1, Len(values))

\* fileLikeRatio > 0.6, with fileLikeRatio = fileLikeCount / max(1, values)
mostlyFiles(values) ==
    10 * Len(SelectSeq(values, LAMBDA v : looksLikeFilename(v) \/ looksLikeUrl(v)))
        > 6 * Max2(1, Len(values))

\* r[column] ?? "" for the rows of t
valuesOf(t, column) ==
    [i \in DOMAIN t.data |->
        IF column \in DOMAIN t.data[i] THEN t.data[i][column] ELSE ""]

MaxHistory == 2        \* entries of tab._matchHistory a specification follows

\* setMatchColumn(tab, column, app, {force, user: "interface"}). okUnlock is
\* the user's answer to the unlock confirm() and okContent the answer to the
\* "mostly empty" or the "attachments/filenames" confirm(): a column is never
\* both, so at most one of the two is shown. An answer is read only when its
\* dialog is shown. saved tells whether storage.saveTab succeeded. changedAt
\* (the clock) is left out of the history entry.
SetMatchColumn(column, force, okUnlock, okContent, saved) ==
    /\ run.pc = "idle"
    /\ dataset.exists
    /\ Len(dataset.matchHistory) < MaxHistory
    /\ LET prev == dataset.matchColumn
           askUnlock == dataset.matchColumnLocked /\ ~force
           values == valuesOf(dataset, column)
           entry == [changedBy |-> "interface", from |-> prev, to |-> column]
           op == [op |-> "setMatchColumn", unlockConfirmed |-> askUnlock /\ okUnlock]
       IN IF prev = column
          THEN UNCHANGED <<dataset, dbTab, matchOp, toast>>
          ELSE IF askUnlock /\ ~okUnlock
          THEN matchOp' = op /\ UNCHANGED <<dataset, dbTab, toast>>
          ELSE IF ~columnFound(dataset, column)
          THEN /\ dataset' = [dataset EXCEPT !.matchColumnLocked = @ /\ ~askUnlock]
               /\ matchOp' = op
               /\ toast' = MsgColumnNotFound(column)
               /\ UNCHANGED dbTab
          ELSE IF \/ (mostlyEmpty(values) /\ ~force /\ ~okContent)
                  \/ (mostlyFiles(values) /\ ~force /\ ~okContent)
          THEN /\ dataset' = [dataset EXCEPT !.matchColumnLocked = @ /\ ~askUnlock]
               /\ matchOp' = op
               /\ UNCHANGED <<dbTab, toast>>
          ELSE /\ dataset' = [dataset EXCEPT
                                 !.matchHistory = Append(@, entry),
                                 !.matchColumn = column,
                                 !.matchColumnLocked = IF force THEN @ /\ ~askUnlock
                                                       ELSE TRUE]
               /\ matchOp' = op
               /\ IF saved
                  THEN dbTab' = dataset' /\ toast' = MsgMatchSet(column)
                  ELSE toast' = MsgMatchSaveFailed /\ UNCHANGED dbTab
    /\ UNCHANGED <<tab, assignments, proposalDue, autoAssignConfig, surveys,
                   proposalAmounts, proposalStatus, approved, trkLabel, modalOpen,
                   run, pending, dbAssignments, dbDue, entryMaps>>
    /\ UNCHANGED <<speedVars, prevVars, approveVars, emailVars, detailVars, loadVars>>

\* #match-lock-btn of a locked dataset ("Unlock"); ok is the answer to confirm()
UnlockMatchColumn(ok, saved) ==
    /\ run.pc = "idle"
    /\ dataset.exists
    /\ dataset.matchColumnLocked
    /\ IF ~ok
       THEN UNCHANGED <<dataset, dbTab, matchOp, toast>>
       ELSE /\ dataset' = [dataset EXCEPT !.matchColumnLocked = FALSE]
            /\ matchOp' = [op |-> "unlock", unlockConfirmed |-> TRUE]
            /\ IF saved
               THEN dbTab' = dataset' /\ toast' = "Match column unlocked"
               ELSE UNCHANGED <<dbTab, toast>>
    /\ UNCHANGED <<tab, assignments, proposalDue, autoAssignConfig, surveys,
                   proposalAmounts, proposalStatus, approved, trkLabel, modalOpen,
                   run, pending, dbAssignments, dbDue, entryMaps>>
    /\ UNCHANGED <<speedVars, prevVars, approveVars, emailVars, detailVars, loadVars>>

\* #match-lock-btn of an unlocked dataset ("Lock")
LockMatchColumn(ok, saved) ==
    /\ run.pc = "idle"
    /\ dataset.exists
    /\ ~dataset.matchColumnLocked
    /\ IF ~ok
       THEN UNCHANGED <<dataset, dbTab, matchOp, toast>>
       ELSE /\ dataset' = [dataset EXCEPT !.matchColumnLocked = TRUE]
            /\ matchOp' = [op |-> "lock", unlockConfirmed |-> FALSE]
            /\ IF saved
               THEN dbTab' = dataset' /\ toast' = "Match column locked"
               ELSE UNCHANGED <<dbTab, toast>>
    /\ UNCHANGED <<tab, assignments, proposalDue, autoAssignConfig, surveys,
                   proposalAmounts, proposalStatus, approved, trkLabel, modalOpen,
                   run, pending, dbAssignments, dbDue, entryMaps>>
    /\ UNCHANGED <<speedVars, prevVars, approveVars, emailVars, detailVars, loadVars>>

(***************************************************************************)
(* SpecDetect: uploads of worksheets drawn from bounded sets               *)
(***************************************************************************)
MaxSheetRows == 5      \* rows of an uploaded worksheet (SpecDetect)

CellNames == <<"Alpha", "beta", "gamma", "delta", "epsilon", "zeta", "eta">>

\* a column of n cells: k distinct names, d more cells repeating the first
\* name, f cells that look like files (the first one a URL), e empty cells
Profiles(n) ==
    {pr \in (0..n) \X (0..n) \X (0..n) \X (0..n) :
        /\ pr[1] + pr[2] + pr[3] + pr[4] = n
        /\ (pr[2] > 0 => pr[1] > 0)}

ColumnOf(pr) ==
    [i \in 1..(pr[1] + pr[2] + pr[3] + pr[4]) |->
        IF i <= pr[1] THEN CellNames[i]
        ELSE IF i <= pr[1] + pr[2] THEN CellNames[1]
        ELSE IF i = pr[1] + pr[2] + 1 /\ pr[3] > 0 THEN "https://x.org/a"
        ELSE IF i <= pr[1] + pr[2] + pr[3] THEN "plan.pdf"
        ELSE ""]

\* the worksheet with headers hs whose c-th column is cols[c]; a later column
\* of the same header overwrites the earlier one (row[h] = display)
SheetOf(hs, n, cols) ==
    [headers |-> hs,
     data |-> [i \in 1..n |->
                 [h \in Range(hs) |->
                     cols[CHOOSE c \in DOMAIN hs :
                              hs[c] = h /\ \A c2 \in DOMAIN hs : hs[c2] = h => c2 <= c][i]]]]

DetectHeaders ==
    { <<"Project Name">>,
      <<"Project Name", "Title">>,
      <<"Title", "Project Name">>,
      <<"Project Name", "Budget">>,
      <<"Attachment", "Project Name">>,
      <<"Budget", "Attachment">>,
      <<"Column 1", "Title">> }

\* the empty worksheet (no !ref)
EmptySheet == [headers |-> <<>>, data |-> <<>>]

survey(name) == [projectName |-> name, overall |-> "ok", lineItems |-> "", funding |-> ""]

DetectSurveys == {<<>>, <<survey("alpha")>>, <<survey("alpha"), survey("omega")>>}

InitDetect ==
    /\ InitIdle
    /\ surveys \in DetectSurveys
    /\ InitRest

\* one upload into the empty application
NextDetect ==
    /\ ~dataset.exists
    /\ \/ \E saved \in BOOLEAN : UploadXLSX(EmptySheet, saved)
       \/ \E hs \in DetectHeaders, n \in 0..MaxSheetRows, saved \in BOOLEAN :
             \E prs \in [DOMAIN hs -> Profiles(n)] :
                UploadXLSX(SheetOf(hs, n, [c \in DOMAIN hs |-> ColumnOf(prs[c])]), saved)

SpecDetect == InitDetect /\ [][NextDetect]_vars

(***************************************************************************)
(* SpecMatch: the life of one dataset on the Data tab                      *)
(***************************************************************************)
\* what parseWorksheet returned for the files chosen in #xlsx: a sheet with
\* no cells, a sheet with one row and an empty "Budget" cell, a sheet whose
\* "Attachment" column holds files, and a sheet with two name columns
MatchSheets ==
    { EmptySheet,
      SheetOf(<<"Project Name", "Budget">>, 1, <<ColumnOf(<<1, 0, 0, 0>>), ColumnOf(<<0, 0, 0, 1>>)>>),
      SheetOf(<<"Title", "Attachment">>, 2, <<ColumnOf(<<2, 0, 0, 0>>), ColumnOf(<<0, 0, 2, 0>>)>>),
      SheetOf(<<"Title", "Project Name">>, 2, <<ColumnOf(<<2, 0, 0, 0>>), ColumnOf(<<1, 1, 0, 0>>)>>) }

\* the values #match-col can hold when its onchange handler runs: the headers
\* of the sheets above (the options are those of the latest renderData, which
\* can be older than the headers of the dataset)
MatchColumns == {"Project Name", "Title", "Budget", "Attachment"}

\* one submission is on file
InitMatch == InitDetect /\ surveys = <<survey("alpha")>>

\* setMatchColumn is called by the onchange handler of #match-col only, with
\* force: false
NextMatch ==
    \/ /\ ~dataset.exists
       /\ \E ws \in MatchSheets, saved \in BOOLEAN : UploadXLSX(ws, saved)
    \/ \E ws \in MatchSheets, saved \in BOOLEAN : ReplaceXLSX(ws, saved)
    \/ \E column \in MatchColumns, okUnlock, okContent, saved \in BOOLEAN :
          SetMatchColumn(column, FALSE, okUnlock, okContent, saved)
    \/ \E ok, saved \in BOOLEAN : UnlockMatchColumn(ok, saved)
    \/ \E ok, saved \in BOOLEAN : LockMatchColumn(ok, saved)

SpecMatch == InitMatch /\ [][NextMatch]_vars


(***************************************************************************)
(* survey.js: detectSpeedtypeFromRow. A string is a sequence of characters *)
(* here (<<>> is ""), so that the regular expressions of the code can be   *)
(* evaluated position by position. A row is the sequence of its            *)
(* [col, val] properties in insertion order.                               *)
(***************************************************************************)
Digits == {"0", "1", "2", "3", "4", "5", "6", "7", "8", "9"}

\* \d
isDigit(c) == c \in Digits

\* \w: the letters are those of the texts below
isWord(c) == isDigit(c) \/ c \in {"S", "T", "s", "t", "A", "a", "c", "x", "m", "i", "_"}

\* [\-\s:]
isSeparator(c) == c \in {"-", " ", ":"}

UpperCase ==
    << "A", "B", "C", "D", "E", "F", "G", "H", "I", "J", "K", "L", "M",
       "N", "O", "P", "Q", "R", "S", "T", "U", "V", "W", "X", "Y", "Z" >>

LowerCase ==
    << "a", "b", "c", "d", "e", "f", "g", "h", "i", "j", "k", "l", "m",
       "n", "o", "p", "q", "r", "s", "t", "u", "v", "w", "x", "y", "z" >>

\* the lower-case form of a character (flag i, toLowerCase)
lowerChar(c) ==
    IF \E i \in DOMAIN UpperCase : UpperCase[i] = c
    THEN LowerCase[CHOOSE i \in DOMAIN UpperCase : UpperCase[i] = c]
    ELSE c

\* dataRow[h]: undefined is kept as ""
rowGet(obj, h) ==
    LET idx == {i \in DOMAIN obj : obj[i].col = h}
    IN IF idx = {} THEN <<>> ELSE obj[CHOOSE i \in idx : TRUE].val

\* s => String(s || "").replace(/\D/g, "")
normalize(s) == SelectSeq(s, isDigit)

VALID_eightDigits(s) == Len(s) = 8 /\ \A i \in 1..8 : isDigit(s[i])

\* /^1\d{7}$/.test(s)
VALID(s) == Len(s) = 8 /\ s[1] = "1" /\ \A i \in 2..8 : isDigit(s[i])

known_withNotes == <<"Notes">>

known ==
    << "Speedtype", "Speed Type", "Speed Type #", "SpeedType",
       "Speed Code", "Speed Code #", "Account", "Account #",
       "Account Number", "Acct", "Acct #" >>

RECURSIVE joinValues(_)
\* Object.values(dataRow).join(" ")
joinValues(obj) ==
    IF Len(obj) = 0 THEN <<>>
    ELSE IF Len(obj) = 1 THEN obj[1].val
    ELSE obj[1].val \o <<" ">> \o joinValues(Tail(obj))

\* 1\d{7} starts at position i of s
codeAt(s, i) ==
    /\ i >= 1
    /\ i + 7 <= Len(s)
    /\ s[i] = "1"
    /\ \A j \in (i + 1)..(i + 7) : isDigit(s[j])

\* \b in front of the word character at position i
boundaryBefore(s, i) == i = 1 \/ ~isWord(s[i - 1])

\* \b behind the word character at position i
boundaryAfter(s, i) == i = Len(s) \/ ~isWord(s[i + 1])

\* the least element of a non-empty set of positions
First(ps) == CHOOSE i \in ps : \A j \in ps : i <= j

\* joined.match(/\b1\d{7}\b/): the leftmost match, <<>> for null
matchBare(s) ==
    LET ps == {i \in DOMAIN s : codeAt(s, i) /\ boundaryBefore(s, i) /\ boundaryAfter(s, i + 7)}
    IN IF ps = {} THEN <<>> ELSE SubSeq(s, First(ps), First(ps) + 7)

\* (?:ST|S|Acct|Account|ACCT) under flag i
prefixes ==
    { <<"s", "t">>, <<"s">>, <<"a", "c", "c", "t">>,
      <<"a", "c", "c", "o", "u", "n", "t">> }

\* the prefix pre stands at position p of s
prefixAt(s, p, pre) ==
    /\ p + Len(pre) - 1 <= Len(s)
    /\ \A k \in DOMAIN pre : lowerChar(s[p + k - 1]) = pre[k]

\* /\b(?:ST|S|Acct|Account|ACCT)[\-\s:]*1\d{7}\b/ig matches from p up to the
\* code that starts at q
prefixedMatch(s, p, q) ==
    /\ boundaryBefore(s, p)
    /\ codeAt(s, q)
    /\ boundaryAfter(s, q + 7)
    /\ \E pre \in prefixes :
          /\ prefixAt(s, p, pre)
          /\ p + Len(pre) <= q
          /\ \A k \in (p + Len(pre))..(q - 1) : isSeparator(s[k])

\* pref[0].match(/1\d{7}/) for the first of the prefixed matches: the prefix
\* and the separators hold no digit, so it is the code the match ends with
matchPrefixed(s) ==
    LET ps == {p \in DOMAIN s : \E q \in DOMAIN s : prefixedMatch(s, p, q)}
        p0 == First(ps)
        q0 == First({q \in DOMAIN s : prefixedMatch(s, p0, q)})
    IN IF ps = {} THEN <<>> ELSE SubSeq(s, q0, q0 + 7)

\* joined.match(/\d{8,}/g): the maximal runs of 8 or more digits, as
\* [from, to] positions
digitRuns(s) ==
    {r \in (DOMAIN s) \X (DOMAIN s) :
        /\ r[2] - r[1] + 1 >= 8
        /\ \A j \in r[1]..r[2] : isDigit(s[j])
        /\ (r[1] = 1 \/ ~isDigit(s[r[1] - 1]))
        /\ (r[2] = Len(s) \/ ~isDigit(s[r[2] + 1]))}

\* the loops over runs and over the 8-character windows of a run: the first
\* window that passes VALID
matchRuns(s) ==
    LET ws == {i \in DOMAIN s :
                  \E r \in digitRuns(s) :
                     /\ r[1] <= i
                     /\ i + 7 <= r[2]
                     /\ VALID(SubSeq(normalize(SubSeq(s, r[1], r[2])),
                                     i - r[1] + 1, i - r[1] + 8))}
    IN IF ws = {} THEN <<>> ELSE SubSeq(s, First(ws), First(ws) + 7)

\* extraColName "" stands for undefined
detectSpeedtypeFromRow(dataRow, approvedRow, extraColName) ==
    LET explicit == normalize(rowGet(dataRow, extraColName))
        hits == {i \in DOMAIN known : VALID(normalize(rowGet(dataRow, known[i])))}
        joined == joinValues(dataRow)
        bare == normalize(matchBare(joined))
        fromApproved == normalize(rowGet(approvedRow, "Speedtype"))
    IN IF extraColName # "" /\ VALID(explicit) THEN explicit
       ELSE IF hits # {} THEN normalize(rowGet(dataRow, known[First(hits)]))
       ELSE IF VALID(bare) THEN bare
       ELSE IF VALID(matchPrefixed(joined)) THEN matchPrefixed(joined)
       ELSE IF matchRuns(joined) # <<>> THEN matchRuns(joined)
       ELSE IF VALID(fromApproved) THEN fromApproved
       ELSE <<>>

\* one call of detectSpeedtypeFromRow with the arguments held in speedIn
DetectSpeedtype ==
    /\ ~speedIn.called
    /\ speedIn' = [speedIn EXCEPT !.called = TRUE]
    /\ speedtype' = detectSpeedtypeFromRow(speedIn.dataRow, speedIn.approvedRow,
                                           speedIn.extraColName)
    /\ UNCHANGED <<exportIn, exportOut>>
    /\ UNCHANGED <<tab, assignments, proposalDue, autoAssignConfig, surveys,
                   proposalAmounts, proposalStatus, approved, trkLabel, toast,
                   modalOpen, run, pending, dbAssignments, dbDue, entryMaps>>
    /\ UNCHANGED <<matchVars, prevVars, approveVars, emailVars, detailVars, loadVars>>

(***************************************************************************)
(* SpecSpeed: detectSpeedtypeFromRow on rows drawn from bounded sets       *)
(***************************************************************************)
\* "12345678"
T_CODE == <<"1", "2", "3", "4", "5", "6", "7", "8">>

\* "1234-5678"
T_DASH == <<"1", "2", "3", "4", "-", "5", "6", "7", "8">>

\* "22345678"
T_TWO == <<"2", "2", "3", "4", "5", "6", "7", "8">>

\* "912345678"
T_LONG == <<"9", "1", "2", "3", "4", "5", "6", "7", "8">>

\* "ST12345678"
T_PREF == <<"S", "T", "1", "2", "3", "4", "5", "6", "7", "8">>

\* "x12345678x"
T_EMB == <<"x", "1", "2", "3", "4", "5", "6", "7", "8", "x">>

\* "_12345678"
T_UNDER == <<"_", "1", "2", "3", "4", "5", "6", "7", "8">>

\* "Acct: 12345678"
T_SEP == <<"A", "c", "c", "t", ":", " ", "1", "2", "3", "4", "5", "6", "7", "8">>

\* "1234567"
T_SEVEN == <<"1", "2", "3", "4", "5", "6", "7">>

\* "19999999"
T_OTHER == <<"1", "9", "9", "9", "9", "9", "9", "9">>

\* "Acct: 1 2345678 misc"
T_SPLIT ==
    << "A", "c", "c", "t", ":", " ", "1", " ", "2", "3", "4", "5", "6", "7", "8",
       " ", "m", "i", "s", "c" >>

\* cell texts: a code alone, a code with a dash in it, 8 digits that start
\* with 2, a code inside a longer digit run, behind a prefix, between
\* letters, behind an underscore, behind a prefix with separators, 7 digits,
\* a second code, a code whose digits a blank interrupts, a text without
\* digits and the empty cell
SpeedTexts ==
    { T_CODE, T_DASH, T_TWO, T_LONG, T_PREF, T_EMB,
      T_UNDER, T_SEP, T_SEVEN, T_OTHER, T_SPLIT, <<"x">>, <<>> }

\* what the approved record holds under "Speedtype"
ApprovedTexts == { <<>>, T_OTHER, T_DASH, T_TWO }

SpeedInputs ==
    {[called |-> FALSE,
      dataRow |-> <<[col |-> "Notes", val |-> n], [col |-> "Account", val |-> a]>>,
      approvedRow |-> <<[col |-> "Speedtype", val |-> ap]>>,
      extraColName |-> x] :
        n \in SpeedTexts, a \in SpeedTexts, ap \in ApprovedTexts, x \in {"", "Notes"}}

InitSpeed ==
    /\ InitIdle
    /\ surveys = <<>>
    /\ InitMatchVars
    /\ speedIn \in SpeedInputs
    /\ speedtype = <<>>
    /\ exportIn = NoCall
    /\ exportOut = <<>>
    /\ InitPrevVars
    /\ InitApproveVars
    /\ InitEmailVars
    /\ InitDetailVars
    /\ InitLoadVars

NextSpeed == DetectSpeedtype

SpecSpeed == InitSpeed /\ [][NextSpeed]_vars

(***************************************************************************)
(* modal.js: renderPreviousYears. Names are sequences of characters.       *)
(***************************************************************************)
\* "Solar Farm"
N_SOLAR == <<"S", "o", "l", "a", "r", " ", "F", "a", "r", "m">>

\* "solar-farm!"
N_SOLAR_PUNCT == <<"s", "o", "l", "a", "r", "-", "f", "a", "r", "m", "!">>

\* "Farm  Solar"
N_FARM_SOLAR == <<"F", "a", "r", "m", " ", " ", "S", "o", "l", "a", "r">>

\* "?!"
N_PUNCT == <<"?", "!">>

\* "A B C D E F G H"
N_EIGHT == <<"A", " ", "B", " ", "C", " ", "D", " ", "E", " ", "F", " ", "G", " ", "H">>

\* "a b c d e f g i j"
N_NINE == <<"a", " ", "b", " ", "c", " ", "d", " ", "e", " ", "f", " ", "g", " ", "i", " ", "j">>

\* "Solar Farm Phase 2"
N_FOUR == <<"S", "o", "l", "a", "r", " ", "F", "a", "r", "m", " ", "P", "h", "a", "s", "e", " ", "2">>

\* "Solar Farm Phase"
N_THREE == <<"S", "o", "l", "a", "r", " ", "F", "a", "r", "m", " ", "P", "h", "a", "s", "e">>

CycleLabels == <<"2022", "2023", "2024">>

\* \s
isSpace(c) == c = " "

\* the k-th of the positions ps, in increasing order
Nth(ps, k) == CHOOSE i \in ps : Cardinality({j \in ps : j < i}) = k - 1

\* String.prototype.trim
trim(s) ==
    LET ps == {i \in DOMAIN s : ~isSpace(s[i])}
        lo == CHOOSE i \in ps : \A j \in ps : i <= j
        hi == CHOOSE i \in ps : \A j \in ps : j <= i
    IN IF ps = {} THEN <<>> ELSE SubSeq(s, lo, hi)

\* toLowerCase().replace(/[^a-z0-9\s]/g, " ")
stripPunctuation(s) ==
    [i \in DOMAIN s |->
        LET c == lowerChar(s[i])
        IN IF isDigit(c) \/ isSpace(c) \/ (\E k \in DOMAIN LowerCase : LowerCase[k] = c)
           THEN c ELSE " "]

\* replace(/\s+/g, " "): of a run of spaces the first one is kept
collapseSpaces(s) ==
    LET ps == {i \in DOMAIN s : ~isSpace(s[i]) \/ i = 1 \/ ~isSpace(s[i - 1])}
    IN [k \in 1..Cardinality(ps) |-> s[Nth(ps, k)]]

normalizeName(name) == trim(collapseSpaces(stripPunctuation(name)))

\* new Set(a.split(" ")): "" splits into the one token ""
tokenSet(a) ==
    IF a = <<>> THEN {<<>>}
    ELSE {SubSeq(a, r[1], r[2]) :
             r \in {q \in (DOMAIN a) \X (DOMAIN a) :
                      /\ q[1] <= q[2]
                      /\ \A k \in q[1]..q[2] : ~isSpace(a[k])
                      /\ (q[1] = 1 \/ isSpace(a[q[1] - 1]))
                      /\ (q[2] = Len(a) \/ isSpace(a[q[2] + 1]))}}

\* the score as the fraction num/den
similarityScore(a, b) ==
    IF a = <<>> \/ b = <<>> THEN [num |-> 0, den |-> 1]
    ELSE IF a = b THEN [num |-> 1, den |-> 1]
    ELSE [num |-> Cardinality(tokenSet(a) \cap tokenSet(b)),
          den |-> Cardinality(tokenSet(a) \cup tokenSet(b))]

belowThreshold_strict(score) == 10 * score.num <= 7 * score.den

\* score < 0.7
belowThreshold(score) == 10 * score.num < 7 * score.den

\* tab.matchColumn || (headers.includes("Project Name") ? "Project Name" : headers[0])
matchColOf(t) ==
    IF t.matchColumn # "" THEN t.matchColumn
    ELSE IF "Project Name" \in Range(t.headers) THEN "Project Name"
    ELSE IF Len(t.headers) > 0 THEN t.headers[1]
    ELSE ""

\* String(row[matchCol] ?? "").trim()
rawNameOf(t, i) ==
    IF matchColOf(t) \in DOMAIN t.data[i] THEN trim(t.data[i][matchColOf(t)]) ELSE <<>>

\* the entry pushed for row i of tab t; requested, given and url, which the
\* order of the list does not depend on, are left out
matchOf(t, i, normQuery) ==
    [cycle |-> t.name,
     projectName |-> rawNameOf(t, i),
     score |-> similarityScore(normQuery, normalizeName(rawNameOf(t, i)))]

\* the rows of tab t that are pushed, in row order
tabMatches(t, currentId, normQuery) ==
    IF t.id = currentId \/ matchColOf(t) = "" THEN <<>>
    ELSE LET all == [i \in DOMAIN t.data |-> matchOf(t, i, normQuery)]
         IN SelectSeq(all, LAMBDA m :
                /\ m.projectName # <<>>
                /\ normalizeName(m.projectName) # <<>>
                /\ ~belowThreshold(m.score))

RECURSIVE allMatches(_, _, _)
\* the loop over app.tabs
allMatches(ts, currentId, normQuery) ==
    IF Len(ts) = 0 THEN <<>>
    ELSE tabMatches(ts[1], currentId, normQuery)
            \o allMatches(Tail(ts), currentId, normQuery)

\* String(a.cycle).localeCompare(String(b.cycle)) < 0 on the cycle labels
\* of the model
cycleBefore(a, b) ==
    \E i, j \in DOMAIN CycleLabels : i < j /\ CycleLabels[i] = a /\ CycleLabels[j] = b

matchBefore_lowFirst(a, b) ==
    \/ a.score.num * b.score.den < b.score.num * a.score.den
    \/ (a.score.num * b.score.den = b.score.num * a.score.den /\ cycleBefore(a.cycle, b.cycle))

\* the comparator (b.score - a.score) || localeCompare is negative
matchBefore(a, b) ==
    \/ a.score.num * b.score.den > b.score.num * a.score.den
    \/ (a.score.num * b.score.den = b.score.num * a.score.den /\ cycleBefore(a.cycle, b.cycle))

\* matches.sort(...): stable
sortMatches(ms) ==
    [r \in DOMAIN ms |->
        ms[CHOOSE i \in DOMAIN ms :
              Cardinality({j \in DOMAIN ms :
                              \/ matchBefore(ms[j], ms[i])
                              \/ (~matchBefore(ms[i], ms[j]) /\ j < i)}) = r - 1]]

\* renderPreviousYears(project, app). The awaited storage.loadProposalMeta
\* calls only feed the given amounts; a failed load is caught and ignored.
RenderPreviousYears ==
    /\ prevMatches.state = "idle"
    /\ LET normQuery == normalizeName(prevProject)
           matches == allMatches(tabs, selectedId, normQuery)
       IN prevMatches' =
             IF normQuery = <<>> THEN [state |-> "noName", list |-> <<>>]
             ELSE IF Len(matches) = 0 THEN [state |-> "notFound", list |-> <<>>]
             ELSE [state |-> "list", list |-> sortMatches(matches)]
    /\ UNCHANGED <<tabs, selectedId, prevProject>>
    /\ UNCHANGED <<tab, assignments, proposalDue, autoAssignConfig, surveys,
                   proposalAmounts, proposalStatus, approved, trkLabel, toast,
                   modalOpen, run, pending, dbAssignments, dbDue, entryMaps>>
    /\ UNCHANGED <<matchVars, speedVars, approveVars, emailVars, detailVars, loadVars>>

(***************************************************************************)
(* SpecPrev: renderPreviousYears on datasets drawn from bounded sets       *)
(***************************************************************************)
MaxPrevRows == 2       \* rows of the dataset of an earlier cycle

\* the data of a tab with the one header h: up to n rows with names of ns
RowsOf(h, ns, n) == UNION {[1..k -> {[c \in {h} |-> x] : x \in ns}] : k \in 0..n}

\* three cycles: the first holds a row of the proposal that is looked up
\* when it is the active one, the third has no stored match column
PrevTabs ==
    {<< [id |-> "dt_1", name |-> "2022", headers |-> <<"Project Name">>,
         matchColumn |-> "Project Name", data |-> d1],
        [id |-> "dt_2", name |-> "2023", headers |-> <<"Project Name">>,
         matchColumn |-> "Project Name", data |-> d2],
        [id |-> "dt_3", name |-> "2024", headers |-> <<"Title">>,
         matchColumn |-> "", data |-> d3] >> :
        d1 \in RowsOf("Project Name", {N_SOLAR, N_EIGHT}, 1),
        d2 \in RowsOf("Project Name",
                      {N_SOLAR_PUNCT, N_FOUR, N_NINE, N_FARM_SOLAR}, MaxPrevRows),
        d3 \in RowsOf("Title", {N_THREE, N_PUNCT, N_SOLAR, N_EIGHT, <<>>}, 1)}

InitPrev ==
    /\ InitIdle
    /\ surveys = <<>>
    /\ InitMatchVars
    /\ InitSpeedVars
    /\ tabs \in PrevTabs
    /\ selectedId \in {"dt_1", "dt_3"}
    /\ prevProject \in {N_SOLAR, N_EIGHT, N_THREE, N_PUNCT}
    /\ prevMatches = NoPrev
    /\ InitApproveVars
    /\ InitEmailVars
    /\ InitDetailVars
    /\ InitLoadVars

NextPrev == RenderPreviousYears

SpecPrev == InitPrev /\ [][NextPrev]_vars

(***************************************************************************)
(* modal.js: the Approve / Unapprove button of the detail modal. A record  *)
(* of app.approved.data is kept as its "Project Name".                     *)
(***************************************************************************)
\* app.approved.data.findIndex(r => r["Project Name"] === project); 0 for -1
findIndex(rows, project) ==
    IF \E i \in DOMAIN rows : rows[i] = project
    THEN CHOOSE i \in DOMAIN rows : rows[i] = project /\ \A j \in 1..(i - 1) : rows[j] # project
    ELSE 0

\* rows.splice(i, 1)
splice(rows, i) == SubSeq(rows, 1, i - 1) \o SubSeq(rows, i + 1, Len(rows))

toggled_push(rows, project) == Append(rows, project)

\* the list after the push of the new record or the splice of the existing one
toggled(rows, project) ==
    IF findIndex(rows, project) = 0 THEN Append(rows, project)
    ELSE splice(rows, findIndex(rows, project))

\* openDetail binds #dt-approve to the project and shows its state
BindApprove(project) ==
    /\ run.pc = "idle"
    /\ tab.exists
    /\ approveBtn' = [project |-> project, approved |-> findIndex(approved, project) # 0]
    /\ UNCHANGED <<approveSaves, dbApproved>>
    /\ UNCHANGED <<tab, assignments, proposalDue, autoAssignConfig, surveys,
                   proposalAmounts, proposalStatus, approved, trkLabel, toast,
                   modalOpen, run, pending, dbAssignments, dbDue, entryMaps>>
    /\ UNCHANGED <<matchVars, speedVars, prevVars, emailVars, detailVars, loadVars>>

MaxApproveSaves == 2   \* storage.saveApprovedData calls awaited at a time

\* #dt-approve onclick up to its await: the list is changed and
\* storage.saveApprovedData is called with the rows as they are now
ToggleApprove ==
    /\ run.pc = "idle"
    /\ approveBtn.project # ""
    /\ Len(approveSaves) < MaxApproveSaves
    /\ approved' = toggled(approved, approveBtn.project)
    /\ approveSaves' = Append(approveSaves,
                              [project |-> approveBtn.project,
                               rows |-> approved',
                               isApproved |-> findIndex(approved, approveBtn.project) = 0])
    /\ UNCHANGED <<dbApproved, approveBtn>>
    /\ UNCHANGED <<tab, assignments, proposalDue, autoAssignConfig, surveys,
                   proposalAmounts, proposalStatus, trkLabel, toast,
                   modalOpen, run, pending, dbAssignments, dbDue, entryMaps>>
    /\ UNCHANGED <<matchVars, speedVars, prevVars, emailVars, detailVars, loadVars>>

\* the oldest save succeeds and its handler goes on: updateApproveButton,
\* renderApproved, renderTracker, renderDashboard
ApproveSaveResolve ==
    /\ run.pc = "idle"
    /\ Len(approveSaves) > 0
    /\ dbApproved' = approveSaves[1].rows
    /\ approveBtn' = [approveBtn EXCEPT !.approved = approveSaves[1].isApproved]
    /\ trkLabel' = trackerLabels
    /\ approveSaves' = Tail(approveSaves)
    /\ UNCHANGED <<tab, assignments, proposalDue, autoAssignConfig, surveys,
                   proposalAmounts, proposalStatus, approved, toast,
                   modalOpen, run, pending, dbAssignments, dbDue, entryMaps>>
    /\ UNCHANGED <<matchVars, speedVars, prevVars, emailVars, detailVars, loadVars>>

\* the oldest save fails: the handler has no catch and ends at its await
ApproveSaveReject ==
    /\ run.pc = "idle"
    /\ Len(approveSaves) > 0
    /\ approveSaves' = Tail(approveSaves)
    /\ UNCHANGED <<dbApproved, approveBtn>>
    /\ UNCHANGED <<tab, assignments, proposalDue, autoAssignConfig, surveys,
                   proposalAmounts, proposalStatus, approved, trkLabel, toast,
                   modalOpen, run, pending, dbAssignments, dbDue, entryMaps>>
    /\ UNCHANGED <<matchVars, speedVars, prevVars, emailVars, detailVars, loadVars>>

(***************************************************************************)
(* SpecApprove: approvals in a dataset with the projects A and B           *)
(***************************************************************************)
ApproveProjects == {"A", "B"}

InitApprove ==
    /\ tab = [exists |-> TRUE, matchCol |-> "Project Name",
              data |-> <<row("A", FALSE), row("B", FALSE)>>]
    /\ approved \in {<<>>, <<"A">>, <<"B", "A">>}
    /\ dbApproved = approved
    /\ approveSaves = <<>>
    /\ approveBtn = NoButton
    /\ assignments = EmptyMap
    /\ proposalDue = EmptyMap
    /\ autoAssignConfig = [meetingDates |-> <<>>, reviewerCount |-> 2, reviewerPool |-> <<>>]
    /\ surveys = <<>>
    /\ proposalAmounts = EmptyMap
    /\ proposalStatus = EmptyMap
    /\ trkLabel = EmptyMap
    /\ toast = ""
    /\ modalOpen = FALSE
    /\ run = NoRun
    /\ pending = <<>>
    /\ dbAssignments = EmptyMap
    /\ dbDue = EmptyMap
    /\ entryMaps = [due |-> EmptyMap, assignments |-> EmptyMap]
    /\ InitMatchVars
    /\ InitSpeedVars
    /\ InitPrevVars
    /\ InitEmailVars
    /\ InitDetailVars
    /\ InitLoadVars

NextApprove ==
    \/ \E project \in ApproveProjects : BindApprove(project)
    \/ ToggleApprove
    \/ ApproveSaveResolve
    \/ ApproveSaveReject

SpecApprove == InitApprove /\ [][NextApprove]_vars

(***************************************************************************)
(* modal.js: openDetail. The detail modal of one proposal: title, note     *)
(* autosave, Save Amount & Status and the Approve button. A project name   *)
(* is one letter; renderPreviousYears gets it as its sequence of           *)
(* characters.                                                             *)
(***************************************************************************)
MaxOpens == 2          \* openDetail calls
MaxMetaSaves == 1      \* storage.saveProposalField calls awaited at a time

\* app.proposalNotes[project] || ""
noteOf(notes, project) == IF Has(notes, project) THEN notes[project] ELSE ""

\* openDetail up to await renderPreviousYears: the overlay is shown, the
\* title and the note are those of the project, the note autosave of this
\* call is bound, and renderPreviousYears starts its search. The buttons
\* keep the handlers they have.
OpenDetail(project) ==
    /\ run.pc = "idle"
    /\ openCount < MaxOpens
    /\ detailOpen' = TRUE
    /\ IF ~tab.exists
       THEN UNCHANGED <<dtTitle, currentProject, openCount, openDetails, noteValue,
                        noteBound, prevProject, prevMatches>>
       ELSE /\ dtTitle' = project
            /\ noteValue' = noteOf(proposalNotes, project)
            /\ currentProject' = project
            /\ openCount' = openCount + 1
            /\ noteBound' = openCount + 1
            /\ prevProject' = <<project>>
            /\ prevMatches' = [state |-> "searching", list |-> <<>>]
            /\ openDetails' = Append(openDetails, [project |-> project, tabId |-> selectedId])
    /\ UNCHANGED <<saveBound, noteTimers, proposalNotes, metaSaves, dbMeta>>
    /\ UNCHANGED <<tabs, selectedId>>
    /\ UNCHANGED <<tab, assignments, proposalDue, autoAssignConfig, surveys,
                   proposalAmounts, proposalStatus, approved, trkLabel, toast,
                   modalOpen, run, pending, dbAssignments, dbDue, entryMaps>>
    /\ UNCHANGED <<matchVars, speedVars, approveVars, emailVars, loadVars>>

\* the loads of renderPreviousYears of the i-th suspended openDetail are
\* done: #dt-prev shows its matches and openDetail goes on to its end, which
\* binds #dt-save-amount and #dt-approve for its project
OpenDetailResumes(i) ==
    /\ run.pc = "idle"
    /\ i \in DOMAIN openDetails
    /\ LET project == openDetails[i].project
           matches == allMatches(tabs, selectedId, normalizeName(<<project>>))
       IN /\ prevMatches' = IF Len(matches) = 0 THEN [state |-> "notFound", list |-> <<>>]
                            ELSE [state |-> "list", list |-> sortMatches(matches)]
          /\ saveBound' = project
          /\ approveBtn' = [project |-> project,
                            approved |-> findIndex(approved, project) # 0]
    /\ openDetails' = splice(openDetails, i)
    /\ UNCHANGED <<detailOpen, dtTitle, currentProject, openCount, noteValue, noteBound,
                   noteTimers, proposalNotes, metaSaves, dbMeta>>
    /\ UNCHANGED <<tabs, selectedId, prevProject, approveSaves, dbApproved>>
    /\ UNCHANGED <<tab, assignments, proposalDue, autoAssignConfig, surveys,
                   proposalAmounts, proposalStatus, approved, trkLabel, toast,
                   modalOpen, run, pending, dbAssignments, dbDue, entryMaps>>
    /\ UNCHANGED <<matchVars, speedVars, emailVars, loadVars>>

\* #dt-x onclick, bound at the end of openDetail
CloseDetail ==
    /\ run.pc = "idle"
    /\ detailOpen
    /\ saveBound # ""
    /\ detailOpen' = FALSE
    /\ UNCHANGED <<dtTitle, currentProject, openCount, openDetails, saveBound, noteValue,
                   noteBound, noteTimers, proposalNotes, metaSaves, dbMeta>>
    /\ UNCHANGED <<tab, assignments, proposalDue, autoAssignConfig, surveys,
                   proposalAmounts, proposalStatus, approved, trkLabel, toast,
                   modalOpen, run, pending, dbAssignments, dbDue, entryMaps>>
    /\ UNCHANGED <<matchVars, speedVars, prevVars, approveVars, emailVars, loadVars>>

\* #dt-save-amount onclick up to its await, with val = Number(#dt-amount)
\* or "" and status = #dt-status. typedFor and typedIn keep the proposal
\* shown and the dataset selected at the click.
SaveAmount(val, status) ==
    /\ run.pc = "idle"
    /\ detailOpen
    /\ saveBound # ""
    /\ Len(metaSaves) < MaxMetaSaves
    /\ LET project == saveBound
       IN /\ proposalAmounts' = Put(proposalAmounts, project, val)
          /\ proposalStatus' = Put(proposalStatus, project, status)
          /\ metaSaves' = Append(metaSaves,
                                 [kind |-> "amount", tabId |-> selectedId,
                                  project |-> project, val |-> val, status |-> status,
                                  typedFor |-> dtTitle, typedIn |-> selectedId])
    /\ UNCHANGED <<detailOpen, dtTitle, currentProject, openCount, openDetails, saveBound,
                   noteValue, noteBound, noteTimers, proposalNotes, dbMeta>>
    /\ UNCHANGED <<tab, assignments, proposalDue, autoAssignConfig, surveys,
                   approved, trkLabel, toast,
                   modalOpen, run, pending, dbAssignments, dbDue, entryMaps>>
    /\ UNCHANGED <<matchVars, speedVars, prevVars, approveVars, emailVars, loadVars>>

\* #dt-approve onclick while the modal is shown
ClickApprove == detailOpen /\ ToggleApprove

\* #dt-note oninput with the text val: the timer of the same openDetail call
\* is cleared and a new one is set. typedFor and typedIn keep the proposal
\* shown and the dataset selected when the text was typed.
TypeNote(val) ==
    /\ run.pc = "idle"
    /\ detailOpen
    /\ noteBound # 0
    /\ noteValue # val
    /\ noteValue' = val
    /\ noteTimers' = Append(SelectSeq(noteTimers, LAMBDA t : t.closure # noteBound),
                            [closure |-> noteBound, val |-> val,
                             typedFor |-> dtTitle, typedIn |-> selectedId])
    /\ UNCHANGED <<detailOpen, dtTitle, currentProject, openCount, openDetails, saveBound,
                   noteBound, proposalNotes, metaSaves, dbMeta>>
    /\ UNCHANGED <<tab, assignments, proposalDue, autoAssignConfig, surveys,
                   proposalAmounts, proposalStatus, approved, trkLabel, toast,
                   modalOpen, run, pending, dbAssignments, dbDue, entryMaps>>
    /\ UNCHANGED <<matchVars, speedVars, prevVars, approveVars, emailVars, loadVars>>

\* the i-th autosave timer fires, 2500 ms after its text was typed: the note
\* is stored in app.proposalNotes and storage.saveProposalField is called
NoteTimerFires(i) ==
    /\ run.pc = "idle"
    /\ i \in DOMAIN noteTimers
    /\ Len(metaSaves) < MaxMetaSaves
    /\ noteTimers' = splice(noteTimers, i)
    /\ LET activeProj == currentProject
       IN IF activeProj = ""
          THEN UNCHANGED <<proposalNotes, metaSaves>>
          ELSE /\ proposalNotes' = Put(proposalNotes, activeProj, noteTimers[i].val)
               /\ metaSaves' = Append(metaSaves,
                                      [kind |-> "notes", tabId |-> selectedId,
                                       project |-> activeProj,
                                       val |-> noteTimers[i].val, status |-> "",
                                       typedFor |-> noteTimers[i].typedFor,
                                       typedIn |-> noteTimers[i].typedIn])
    /\ UNCHANGED <<detailOpen, dtTitle, currentProject, openCount, openDetails, saveBound,
                   noteValue, noteBound, dbMeta>>
    /\ UNCHANGED <<tab, assignments, proposalDue, autoAssignConfig, surveys,
                   proposalAmounts, proposalStatus, approved, trkLabel, toast,
                   modalOpen, run, pending, dbAssignments, dbDue, entryMaps>>
    /\ UNCHANGED <<matchVars, speedVars, prevVars, approveVars, emailVars, loadVars>>

\* storage.saveProposalField: set(fields, { merge: true }) on
\* tabs/{tabId}/proposals/{project}
saveProposalField(db, s) ==
    IF s.kind = "notes"
    THEN [db EXCEPT !.notes = Put(db.notes, <<s.tabId, s.project>>, s.val)]
    ELSE [db EXCEPT !.amounts = Put(db.amounts, <<s.tabId, s.project>>, s.val),
                    !.status = Put(db.status, <<s.tabId, s.project>>, s.status)]

\* the oldest awaited saveProposalField succeeds; the handler of Save Amount
\* & Status goes on to renderTracker and renderDashboard
MetaSaveResolve ==
    /\ run.pc = "idle"
    /\ Len(metaSaves) > 0
    /\ dbMeta' = saveProposalField(dbMeta, metaSaves[1])
    /\ metaSaves' = Tail(metaSaves)
    /\ trkLabel' = IF metaSaves[1].kind = "amount" THEN trackerLabels ELSE trkLabel
    /\ UNCHANGED <<detailOpen, dtTitle, currentProject, openCount, openDetails, saveBound,
                   noteValue, noteBound, noteTimers, proposalNotes>>
    /\ UNCHANGED <<tab, assignments, proposalDue, autoAssignConfig, surveys,
                   proposalAmounts, proposalStatus, approved, toast,
                   modalOpen, run, pending, dbAssignments, dbDue, entryMaps>>
    /\ UNCHANGED <<matchVars, speedVars, prevVars, approveVars, emailVars, loadVars>>

\* the oldest awaited saveProposalField fails: the handler has no catch and
\* ends at its await
MetaSaveReject ==
    /\ run.pc = "idle"
    /\ Len(metaSaves) > 0
    /\ metaSaves' = Tail(metaSaves)
    /\ UNCHANGED <<detailOpen, dtTitle, currentProject, openCount, openDetails, saveBound,
                   noteValue, noteBound, noteTimers, proposalNotes, dbMeta>>
    /\ UNCHANGED <<tab, assignments, proposalDue, autoAssignConfig, surveys,
                   proposalAmounts, proposalStatus, approved, trkLabel, toast,
                   modalOpen, run, pending, dbAssignments, dbDue, entryMaps>>
    /\ UNCHANGED <<matchVars, speedVars, prevVars, approveVars, emailVars, loadVars>>

(***************************************************************************)
(* SpecDetail: the detail modal on the dataset dt_1 with the projects A    *)
(* and B; dt_0 is the dataset of an earlier cycle                          *)
(***************************************************************************)
DetailTabs ==
    << [id |-> "dt_0", name |-> "2022", headers |-> <<"Project Name">>,
        matchColumn |-> "Project Name",
        data |-> <<[c \in {"Project Name"} |-> <<"A">>]>>],
       [id |-> "dt_1", name |-> "2023", headers |-> <<"Project Name">>,
        matchColumn |-> "Project Name",
        data |-> <<[c \in {"Project Name"} |-> <<"A">>],
                   [c \in {"Project Name"} |-> <<"B">>]>>] >>

InitDetail ==
    /\ tab \in {NoTab,
                [exists |-> TRUE, matchCol |-> "Project Name",
                 data |-> <<row("A", FALSE), row("B", FALSE)>>]}
    /\ assignments = EmptyMap
    /\ proposalDue = EmptyMap
    /\ autoAssignConfig = [meetingDates |-> <<>>, reviewerCount |-> 2, reviewerPool |-> <<>>]
    /\ proposalAmounts = EmptyMap
    /\ proposalStatus = EmptyMap
    /\ approved = <<>>
    /\ trkLabel = EmptyMap
    /\ toast = ""
    /\ modalOpen = FALSE
    /\ run = NoRun
    /\ pending = <<>>
    /\ dbAssignments = EmptyMap
    /\ dbDue = EmptyMap
    /\ entryMaps = [due |-> EmptyMap, assignments |-> EmptyMap]
    /\ surveys = <<>>
    /\ InitMatchVars
    /\ InitSpeedVars
    /\ tabs = DetailTabs
    /\ selectedId = "dt_1"
    /\ prevProject = <<>>
    /\ prevMatches = NoPrev
    /\ InitApproveVars
    /\ InitEmailVars
    /\ InitDetailVars
    /\ InitLoadVars

NextDetail ==
    \/ \E project \in {"A", "B"} : OpenDetail(project)
    \/ \E i \in 1..MaxOpens : OpenDetailResumes(i)
    \/ CloseDetail
    \/ \E in \in {<<AmtEmpty, "">>, <<AmtNum(1), "partial">>} : SaveAmount(in[1], in[2])
    \/ approveSaves = <<>> /\ ClickApprove
    \/ ApproveSaveResolve
    \/ ApproveSaveReject
    \/ MetaSaveResolve
    \/ MetaSaveReject

SpecDetail == InitDetail /\ [][NextDetail]_vars

(***************************************************************************)
(* SpecNote: the note autosave of the detail modal on the same dataset     *)
(***************************************************************************)
NextNote ==
    \/ \E project \in {"A", "B"} : OpenDetail(project)
    \/ \E i \in 1..MaxOpens : OpenDetailResumes(i)
    \/ \E val \in {"x", "y"} : TypeNote(val)
    \/ \E i \in 1..MaxOpens : NoteTimerFires(i)
    \/ MetaSaveResolve
    \/ MetaSaveReject

SpecNote == InitDetail /\ [][NextNote]_vars

(***************************************************************************)
(* app.js: switchDataset and reloadCurrentDataset; tracker.js:             *)
(* clearAllAssignments. dbAssignments, dbApproved and dbDue are the        *)
(* documents of the dataset dt_1; what the other datasets hold in          *)
(* Firestore does not change.                                              *)
(***************************************************************************)
\* get activeTab(): the tab with the selected id, as the tracker reads it;
\* the names of the rows are one letter long
activeTab(ts, id) ==
    IF \E i \in DOMAIN ts : ts[i].id = id
    THEN LET t == ts[CHOOSE i \in DOMAIN ts : ts[i].id = id /\ \A j \in 1..(i - 1) : ts[j].id # id]
         IN [exists |-> TRUE,
             matchCol |-> t.matchColumn,
             data |-> [i \in DOMAIN t.data |-> row(t.data[i][t.matchColumn][1], FALSE)]]
    ELSE NoTab

\* storage.loadSurveys(id)
loadSurveys(id) ==
    IF id = "dt_1" THEN <<survey("A")>>
    ELSE IF id = "dt_2" THEN <<survey("B")>>
    ELSE <<>>

\* storage.loadAssignments(id)
loadAssignmentsOf(id) ==
    IF id = "dt_1" THEN loadAssignments(dbAssignments)
    ELSE IF id = "dt_2" THEN Put(EmptyMap, "B", <<"R2">>)
    ELSE EmptyMap

\* storage.loadApprovedData(id)
loadApprovedData(id) ==
    IF id = "dt_1" THEN dbApproved
    ELSE IF id = "dt_2" THEN <<"B">>
    ELSE <<>>

\* the field of the proposal documents of dataset id, by project
fieldOf(m, id) ==
    [p \in {k[2] : k \in {x \in DOMAIN m : x[1] = id}} |-> m[<<id, p>>]]

\* storage.loadProposalMeta(id)
loadProposalMeta(id) ==
    [amounts |-> fieldOf(dbMeta.amounts, id),
     notes |-> fieldOf(dbMeta.notes, id),
     status |-> fieldOf(dbMeta.status, id),
     due |-> IF id = "dt_1" THEN dbDue ELSE EmptyMap]

MaxSwitches == 2       \* switchDataset and reload invocations awaited at a time

MsgReloaded(name) == "Dataset \"" \o name \o "\" reloaded"

\* the name of the active tab, or the id
tabNameOr(ts, sel, id) ==
    IF \E i \in DOMAIN ts : ts[i].id = sel
    THEN ts[CHOOSE i \in DOMAIN ts : ts[i].id = sel].name
    ELSE id

\* switchDataset(id) up to await storage.saveUIConfig
SwitchDataset(id) ==
    /\ run.pc = "idle"
    /\ id # "" /\ id # selectedId
    /\ Len(switches) < MaxSwitches
    /\ selectedId' = id
    /\ tab' = activeTab(tabs, id)
    /\ switches' = Append(switches, [pc |-> "saveUI", id |-> id])
    /\ UNCHANGED <<tabs, prevProject, prevMatches, clearSaves>>
    /\ UNCHANGED <<assignments, proposalDue, autoAssignConfig, surveys,
                   proposalAmounts, proposalStatus, approved, trkLabel, toast,
                   modalOpen, run, pending, dbAssignments, dbDue, entryMaps>>
    /\ UNCHANGED <<matchVars, speedVars, approveVars, emailVars, detailVars>>

\* await storage.saveUIConfig of the i-th invocation resolves and
\* reloadCurrentDataset is called: it reads app.selectedId and starts the
\* four loads of that dataset
SaveUIConfigResolves(i) ==
    /\ run.pc = "idle"
    /\ i \in DOMAIN switches
    /\ switches[i].pc = "saveUI"
    /\ switches' = [switches EXCEPT ![i] = [pc |-> "load", id |-> selectedId]]
    /\ UNCHANGED <<tabs, selectedId, prevProject, prevMatches, clearSaves>>
    /\ UNCHANGED <<tab, assignments, proposalDue, autoAssignConfig, surveys,
                   proposalAmounts, proposalStatus, approved, trkLabel, toast,
                   modalOpen, run, pending, dbAssignments, dbDue, entryMaps>>
    /\ UNCHANGED <<matchVars, speedVars, approveVars, emailVars, detailVars>>

\* init: await reloadCurrentDataset() for the selected dataset
StartReload ==
    /\ run.pc = "idle"
    /\ selectedId # ""
    /\ Len(switches) < MaxSwitches
    /\ switches' = Append(switches, [pc |-> "load", id |-> selectedId])
    /\ UNCHANGED <<tabs, selectedId, prevProject, prevMatches, clearSaves>>
    /\ UNCHANGED <<tab, assignments, proposalDue, autoAssignConfig, surveys,
                   proposalAmounts, proposalStatus, approved, trkLabel, toast,
                   modalOpen, run, pending, dbAssignments, dbDue, entryMaps>>
    /\ UNCHANGED <<matchVars, speedVars, approveVars, emailVars, detailVars>>

\* Promise.all of the i-th invocation resolves: the loaded data become the
\* data of the application, whichever dataset is selected by now, and
\* renderAll shows them
LoadsResolve(i) ==
    /\ run.pc = "idle"
    /\ i \in DOMAIN switches
    /\ switches[i].pc = "load"
    /\ LET id == switches[i].id
           meta == loadProposalMeta(id)
       IN /\ surveys' = loadSurveys(id)
          /\ assignments' = loadAssignmentsOf(id)
          /\ approved' = loadApprovedData(id)
          /\ proposalAmounts' = meta.amounts
          /\ proposalNotes' = meta.notes
          /\ proposalStatus' = meta.status
          /\ proposalDue' = meta.due
          /\ toast' = MsgReloaded(tabNameOr(tabs, selectedId, id))
    /\ switches' = splice(switches, i)
    /\ UNCHANGED <<tabs, selectedId, prevProject, prevMatches, clearSaves>>
    /\ UNCHANGED <<tab, autoAssignConfig, modalOpen, run, pending, dbAssignments,
                   dbDue, entryMaps>>
    /\ UNCHANGED <<detailOpen, dtTitle, currentProject, openCount, openDetails, saveBound,
                   noteValue, noteBound, noteTimers, metaSaves, dbMeta>>
    /\ UNCHANGED <<matchVars, speedVars, approveVars, emailVars>>
    /\ trkLabel' = trackerLabels'

\* saveUIConfig or one of the loads of the i-th invocation rejects:
\* switchDataset has no catch and ends at its await
SwitchFails(i) ==
    /\ run.pc = "idle"
    /\ i \in DOMAIN switches
    /\ switches' = splice(switches, i)
    /\ UNCHANGED <<tabs, selectedId, prevProject, prevMatches, clearSaves>>
    /\ UNCHANGED <<tab, assignments, proposalDue, autoAssignConfig, surveys,
                   proposalAmounts, proposalStatus, approved, trkLabel, toast,
                   modalOpen, run, pending, dbAssignments, dbDue, entryMaps>>
    /\ UNCHANGED <<matchVars, speedVars, approveVars, emailVars, detailVars>>

MsgNothingToClear == "No assignments to clear."

MsgCleared == "All assignments cleared."

\* clearAllAssignments up to await storage.saveAssignments; confirmed is the
\* answer to confirm()
ClearAllAssignments(confirmed) ==
    /\ run.pc = "idle"
    /\ Len(clearSaves) < 1
    /\ IF assignments = EmptyMap
       THEN toast' = MsgNothingToClear /\ UNCHANGED <<assignments, clearSaves>>
       ELSE IF ~confirmed
       THEN UNCHANGED <<toast, assignments, clearSaves>>
       ELSE /\ assignments' = EmptyMap
            /\ clearSaves' = Append(clearSaves, [tabId |-> selectedId, a |-> EmptyMap])
            /\ UNCHANGED toast
    /\ UNCHANGED switches
    /\ UNCHANGED <<tab, proposalDue, autoAssignConfig, surveys,
                   proposalAmounts, proposalStatus, approved, trkLabel,
                   modalOpen, run, pending, dbAssignments, dbDue, entryMaps>>
    /\ UNCHANGED <<matchVars, speedVars, prevVars, approveVars, emailVars, detailVars>>

\* storage.saveAssignments(app.selectedId, {}) succeeds and
\* clearAllAssignments goes on to notify and to render the tracker
ClearSaveResolve ==
    /\ run.pc = "idle"
    /\ Len(clearSaves) > 0
    /\ dbAssignments' = IF clearSaves[1].tabId = "dt_1"
                        THEN saveAssignments(dbAssignments, clearSaves[1].a)
                        ELSE dbAssignments
    /\ clearSaves' = Tail(clearSaves)
    /\ toast' = MsgCleared
    /\ trkLabel' = trackerLabels
    /\ UNCHANGED switches
    /\ UNCHANGED <<tab, assignments, proposalDue, autoAssignConfig, surveys,
                   proposalAmounts, proposalStatus, approved,
                   modalOpen, run, pending, dbDue, entryMaps>>
    /\ UNCHANGED <<matchVars, speedVars, prevVars, approveVars, emailVars, detailVars>>

\* storage.saveAssignments rejects: clearAllAssignments has no catch
ClearSaveReject ==
    /\ run.pc = "idle"
    /\ Len(clearSaves) > 0
    /\ clearSaves' = Tail(clearSaves)
    /\ UNCHANGED switches
    /\ UNCHANGED <<tab, assignments, proposalDue, autoAssignConfig, surveys,
                   proposalAmounts, proposalStatus, approved, trkLabel, toast,
                   modalOpen, run, pending, dbAssignments, dbDue, entryMaps>>
    /\ UNCHANGED <<matchVars, speedVars, prevVars, approveVars, emailVars, detailVars>>

(***************************************************************************)
(* SpecSwitch: switches between three datasets; dt_1 is selected and       *)
(* loaded                                                                  *)
(***************************************************************************)
SwitchTabs ==
    << [id |-> "dt_1", name |-> "2022", headers |-> <<"Project Name">>,
        matchColumn |-> "Project Name",
        data |-> <<[c \in {"Project Name"} |-> <<"A">>]>>],
       [id |-> "dt_2", name |-> "2023", headers |-> <<"Project Name">>,
        matchColumn |-> "Project Name",
        data |-> <<[c \in {"Project Name"} |-> <<"B">>]>>],
       [id |-> "dt_3", name |-> "2024", headers |-> <<"Project Name">>,
        matchColumn |-> "Project Name",
        data |-> <<>>] >>

\* what Firestore holds of the proposals of dt_1 and dt_2
SwitchMeta ==
    [notes |-> Put(EmptyMap, <<"dt_2", "B">>, "x"),
     amounts |-> Put(EmptyMap, <<"dt_1", "A">>, AmtNum(1)),
     status |-> Put(EmptyMap, <<"dt_1", "A">>, "partial")]

\* the application after init has loaded the dataset dt_1, whose
\* assignments document is a
InitLoaded(a) ==
    /\ tabs = SwitchTabs
    /\ selectedId = "dt_1"
    /\ tab = activeTab(SwitchTabs, "dt_1")
    /\ dbAssignments = a
    /\ dbApproved = <<"A">>
    /\ dbDue = EmptyMap
    /\ dbMeta = SwitchMeta
    /\ surveys = loadSurveys("dt_1")
    /\ assignments = a
    /\ approved = <<"A">>
    /\ proposalAmounts = fieldOf(SwitchMeta.amounts, "dt_1")
    /\ proposalNotes = fieldOf(SwitchMeta.notes, "dt_1")
    /\ proposalStatus = fieldOf(SwitchMeta.status, "dt_1")
    /\ proposalDue = EmptyMap
    /\ autoAssignConfig = [meetingDates |-> <<>>, reviewerCount |-> 2, reviewerPool |-> <<>>]
    /\ trkLabel = EmptyMap
    /\ toast = ""
    /\ modalOpen = FALSE
    /\ run = NoRun
    /\ pending = <<>>
    /\ entryMaps = [due |-> EmptyMap, assignments |-> EmptyMap]
    /\ InitMatchVars
    /\ InitSpeedVars
    /\ prevProject = <<>>
    /\ prevMatches = NoPrev
    /\ approveSaves = <<>>
    /\ approveBtn = NoButton
    /\ InitEmailVars
    /\ detailOpen = FALSE
    /\ dtTitle = ""
    /\ currentProject = ""
    /\ openCount = 0
    /\ openDetails = <<>>
    /\ saveBound = ""
    /\ noteValue = ""
    /\ noteBound = 0
    /\ noteTimers = <<>>
    /\ metaSaves = <<>>
    /\ InitLoadVars

InitSwitch == InitLoaded(Put(EmptyMap, "A", <<"R1">>))

NextSwitch ==
    \/ \E id \in {"dt_1", "dt_2", "dt_3"} : SwitchDataset(id)
    \/ \E i \in 1..MaxSwitches : SaveUIConfigResolves(i)
    \/ \E i \in 1..MaxSwitches : LoadsResolve(i)
    \/ \E i \in 1..MaxSwitches : SwitchFails(i)

SpecSwitch == InitSwitch /\ [][NextSwitch]_vars

(***************************************************************************)
(* SpecClear: clearAllAssignments and reloads on the dataset dt_1          *)
(***************************************************************************)
ClearAssignments ==
    { EmptyMap,
      Put(EmptyMap, "A", <<"R1">>),
      Put(EmptyMap, "A", <<"R1", "R2">>),
      Put(Put(EmptyMap, "A", <<"R1">>), "B", <<"R2">>) }

InitClear == \E a \in ClearAssignments : InitLoaded(a)

NextClear ==
    \/ \E confirmed \in BOOLEAN : ClearAllAssignments(confirmed)
    \/ ClearSaveResolve
    \/ ClearSaveReject
    \/ StartReload
    \/ \E i \in 1..MaxSwitches : LoadsResolve(i)
    \/ \E i \in 1..MaxSwitches : SwitchFails(i)

SpecClear == InitClear /\ [][NextClear]_vars

(***************************************************************************)
(* approved.js: exportApproved, the "Speedtype" cell of one exported row   *)
(***************************************************************************)
\* (tab.data || []).find(row => String(row[matchCol] || "").trim() ===
\*                              String(project).trim()) || {}
findDataRow(data, matchCol, project) ==
    LET found == {i \in DOMAIN data : trim(rowGet(data[i], matchCol)) = trim(project)}
    IN IF found = {} THEN <<>> ELSE data[First(found)]

\* detectSpeedtypeFromRow(dataRow, r, $("ap-extra")?.value) || (r["Speedtype"] || "")
exportSpeedtype(data, matchCol, r, extraColName) ==
    LET dataRow == findDataRow(data, matchCol, rowGet(r, "Project Name"))
        detected == detectSpeedtypeFromRow(dataRow, r, extraColName)
    IN IF detected # <<>> THEN detected ELSE rowGet(r, "Speedtype")

\* exportApproved builds the row of the approved record held in exportIn
ExportApproved ==
    /\ ~exportIn.called
    /\ exportIn' = [exportIn EXCEPT !.called = TRUE]
    /\ exportOut' = exportSpeedtype(exportIn.data, exportIn.matchCol, exportIn.r,
                                    exportIn.extraColName)
    /\ UNCHANGED <<speedIn, speedtype>>
    /\ UNCHANGED <<tab, assignments, proposalDue, autoAssignConfig, surveys,
                   proposalAmounts, proposalStatus, approved, trkLabel, toast,
                   modalOpen, run, pending, dbAssignments, dbDue, entryMaps>>
    /\ UNCHANGED <<matchVars, prevVars, approveVars, emailVars, detailVars, loadVars>>

(***************************************************************************)
(* SpecExport: exportApproved on one approved record, whose project has a  *)
(* row in the dataset or none                                              *)
(***************************************************************************)
\* "misc"
T_WORD == <<"m", "i", "s", "c">>

\* what the approved record holds under "Speedtype": nothing, a code, a code
\* with a dash in it, 8 digits that start with 2, 7 digits, a word
StoredTexts == { <<>>, T_OTHER, T_DASH, T_TWO, T_SEVEN, T_WORD }

ExportInputs ==
    {[called |-> FALSE,
      data |-> << <<[col |-> "Project Name", val |-> p], [col |-> "Notes", val |-> n]>> >>,
      matchCol |-> "Project Name",
      r |-> <<[col |-> "Project Name", val |-> <<"x">>],
              [col |-> "Speedtype", val |-> ap]>>,
      extraColName |-> x] :
        p \in {<<"x">>, <<"x", " ">>, <<"y">>}, n \in SpeedTexts, ap \in StoredTexts,
        x \in {"", "Notes"}}

InitExport ==
    /\ InitIdle
    /\ surveys = <<>>
    /\ InitMatchVars
    /\ speedIn = NoCall
    /\ speedtype = <<>>
    /\ exportIn \in ExportInputs
    /\ exportOut = <<>>
    /\ InitPrevVars
    /\ InitApproveVars
    /\ InitEmailVars
    /\ InitDetailVars
    /\ InitLoadVars

NextExport == ExportApproved

SpecExport == InitExport /\ [][NextExport]_vars

(***************************************************************************)
(* tracker.js: sendTrackerReminderEmails. The ellipsis character of the    *)
(* messages is written as three dots.                                      *)
(***************************************************************************)
MsgAlreadySending == "Reminder emails are already being sent..."

MsgNoDataset == "Select a dataset before sending emails."

MsgNoMatchColumn == "No match column available for this dataset."

MsgNoEmails == "No reviewer emails found. Update the reviewer directory in Firestore."

MsgNoAssignments == "No reviewer assignments available to email."

MsgSentMissing == "Emails sent. Missing contacts for some reviewers"

MsgSent == "Reviewer reminder emails sent."

MsgSendFailed == "Unable to send reminder emails."

\* the reviewers buildDirectoryLookup finds a contact for
EmailDirectory == {"R1", "R2"}

\* the names assigned to some project
assignedNames == UNION {Range(assignments[p]) : p \in DOMAIN assignments}

\* Object.values(reviewerPayload), as the set of reviewers it holds
reviewerList == assignedNames \cap EmailDirectory

\* missing
missingContacts == assignedNames \ EmailDirectory

alreadySending_never == FALSE

\* if (sendInFlight)
alreadySending == sendInFlight

MaxEmailReq == 2       \* invocations suspended at an await that are followed

\* sendTrackerReminderEmails up to its first await. hasToken tells whether
\* firebase.auth().currentUser has getIdToken, which is awaited before fetch
\* is called; without it fetch is called at once.
SendTrackerReminderEmails(hasToken) ==
    /\ run.pc = "idle"
    /\ Len(emailReq) < MaxEmailReq
    /\ IF alreadySending
       THEN toast' = MsgAlreadySending /\ UNCHANGED emailVars
       ELSE IF ~tab.exists
       THEN toast' = MsgNoDataset /\ UNCHANGED emailVars
       ELSE IF tab.matchCol = ""
       THEN toast' = MsgNoMatchColumn /\ UNCHANGED emailVars
       ELSE IF reviewerList = {}
       THEN /\ toast' = IF missingContacts # {} THEN MsgNoEmails ELSE MsgNoAssignments
            /\ UNCHANGED emailVars
       ELSE /\ emailBtn' = [disabled |-> TRUE, text |-> "Sending..."]
            /\ sendInFlight' = TRUE
            /\ emailReq' = Append(emailReq,
                                  [pc |-> IF hasToken THEN "getIdToken" ELSE "fetch",
                                   prevLabel |-> emailBtn.text,
                                   missing |-> missingContacts # {}])
            /\ UNCHANGED toast
    /\ UNCHANGED <<tab, assignments, proposalDue, autoAssignConfig, surveys,
                   proposalAmounts, proposalStatus, approved, trkLabel,
                   modalOpen, run, pending, dbAssignments, dbDue, entryMaps>>
    /\ UNCHANGED <<matchVars, speedVars, prevVars, approveVars, detailVars, loadVars>>

\* await user.getIdToken() settles (a failure is caught and logged) and
\* fetch is called
GetIdTokenSettles(i) ==
    /\ run.pc = "idle"
    /\ i \in DOMAIN emailReq
    /\ emailReq[i].pc = "getIdToken"
    /\ emailReq' = [emailReq EXCEPT ![i].pc = "fetch"]
    /\ UNCHANGED <<sendInFlight, emailBtn, toast>>
    /\ UNCHANGED <<tab, assignments, proposalDue, autoAssignConfig, surveys,
                   proposalAmounts, proposalStatus, approved, trkLabel,
                   modalOpen, run, pending, dbAssignments, dbDue, entryMaps>>
    /\ UNCHANGED <<matchVars, speedVars, prevVars, approveVars, detailVars, loadVars>>

\* await fetch(...) resolves: with res.ok the emails are sent, otherwise
\* res.text() is awaited
FetchResolves(i, ok) ==
    /\ run.pc = "idle"
    /\ i \in DOMAIN emailReq
    /\ emailReq[i].pc = "fetch"
    /\ IF ok
       THEN /\ toast' = IF emailReq[i].missing THEN MsgSentMissing ELSE MsgSent
            /\ sendInFlight' = FALSE
            /\ emailBtn' = [disabled |-> FALSE,
                            text |-> IF emailReq[i].prevLabel # ""
                                     THEN emailReq[i].prevLabel ELSE "Email Reminders"]
            /\ emailReq' = SubSeq(emailReq, 1, i - 1) \o SubSeq(emailReq, i + 1, Len(emailReq))
       ELSE /\ emailReq' = [emailReq EXCEPT ![i].pc = "text"]
            /\ UNCHANGED <<sendInFlight, emailBtn, toast>>
    /\ UNCHANGED <<tab, assignments, proposalDue, autoAssignConfig, surveys,
                   proposalAmounts, proposalStatus, approved, trkLabel,
                   modalOpen, run, pending, dbAssignments, dbDue, entryMaps>>
    /\ UNCHANGED <<matchVars, speedVars, prevVars, approveVars, detailVars, loadVars>>

\* await fetch(...) rejects, or await res.text() settles and the error is
\* thrown: catch notifies, finally releases the guard and the button
RequestFails(i) ==
    /\ run.pc = "idle"
    /\ i \in DOMAIN emailReq
    /\ emailReq[i].pc \in {"fetch", "text"}
    /\ toast' = MsgSendFailed
    /\ sendInFlight' = FALSE
    /\ emailBtn' = [disabled |-> FALSE,
                    text |-> IF emailReq[i].prevLabel # ""
                             THEN emailReq[i].prevLabel ELSE "Email Reminders"]
    /\ emailReq' = SubSeq(emailReq, 1, i - 1) \o SubSeq(emailReq, i + 1, Len(emailReq))
    /\ UNCHANGED <<tab, assignments, proposalDue, autoAssignConfig, surveys,
                   proposalAmounts, proposalStatus, approved, trkLabel,
                   modalOpen, run, pending, dbAssignments, dbDue, entryMaps>>
    /\ UNCHANGED <<matchVars, speedVars, prevVars, approveVars, detailVars, loadVars>>

(***************************************************************************)
(* SpecEmail: reminder emails for a dataset with the projects A and B      *)
(***************************************************************************)
EmailTabs ==
    { NoTab,
      [exists |-> TRUE, matchCol |-> "", data |-> <<>>],
      [exists |-> TRUE, matchCol |-> "Project Name",
       data |-> <<row("A", FALSE), row("B", FALSE)>>] }

\* the reviewers of the projects A and B; "R9" has no entry in the
\* reviewer directory
EmailAssignments ==
    UNION {[d -> {<<"R1">>, <<"R1", "R2">>, <<"R1", "R9">>, <<"R9">>, <<>>}] :
              d \in SUBSET {"A", "B"}}

InitEmail ==
    /\ tab \in EmailTabs
    /\ assignments \in EmailAssignments
    /\ proposalDue = EmptyMap
    /\ autoAssignConfig = [meetingDates |-> <<>>, reviewerCount |-> 2, reviewerPool |-> <<>>]
    /\ surveys = <<>>
    /\ proposalAmounts = EmptyMap
    /\ proposalStatus = EmptyMap
    /\ approved = <<>>
    /\ trkLabel = EmptyMap
    /\ toast = ""
    /\ modalOpen = FALSE
    /\ run = NoRun
    /\ pending = <<>>
    /\ dbAssignments = EmptyMap
    /\ dbDue = EmptyMap
    /\ entryMaps = [due |-> EmptyMap, assignments |-> EmptyMap]
    /\ InitMatchVars
    /\ InitSpeedVars
    /\ InitPrevVars
    /\ InitApproveVars
    /\ InitEmailVars
    /\ InitDetailVars
    /\ InitLoadVars

NextEmail ==
    \/ \E hasToken \in BOOLEAN : SendTrackerReminderEmails(hasToken)
    \/ \E i \in 1..MaxEmailReq : GetIdTokenSettles(i)
    \/ \E i \in 1..MaxEmailReq, ok \in BOOLEAN : FetchResolves(i, ok)
    \/ \E i \in 1..MaxEmailReq : RequestFails(i)

SpecEmail == InitEmail /\ [][NextEmail]_vars

(***************************************************************************)
(* Status classification: properties of renderTracker                      *)
(***************************************************************************)
\* the facts of a project, read from the state without the model's helpers
HasApprovedRecord(p) == \E i \in DOMAIN approved : approved[i] = p

AssignedCount(p) == IF p \in DOMAIN assignments THEN Len(assignments[p]) ELSE 0

SubstantiveCount(p) ==
    Cardinality({i \in DOMAIN surveys :
        /\ surveys[i].projectName = p
        /\ ~(surveys[i].overall = "" /\ surveys[i].lineItems = "" /\ surveys[i].funding = "")})

AmountRecorded(p) == p \in DOMAIN proposalAmounts /\ proposalAmounts[p] # AmtEmpty

PositiveAmountRecorded(p) ==
    /\ p \in DOMAIN proposalAmounts
    /\ proposalAmounts[p].t = "num"
    /\ proposalAmounts[p].n > 0

StatusRecorded(p) == p \in DOMAIN proposalStatus /\ proposalStatus[p] # ""

\* C1: whenever renderTracker rebuilds the table, a project's status is
\* "Approved" if and only if app.approved.data holds a record whose
\* "Project Name" is that project, whatever the other facts are.
C1_ApprovedIffRecord ==
    [][trkLabel' # trkLabel =>
        \A p \in DOMAIN trkLabel' :
            (trkLabel'[p] = "Approved") <=> HasApprovedRecord(p)]_vars

C1_Witness ==
    \E p \in DOMAIN trkLabel, q \in DOMAIN trkLabel :
        /\ trkLabel[p] = "Approved" /\ trkLabel[q] # "Approved"
        /\ AssignedCount(p) = 0 /\ HasApprovedRecord(p) /\ ~HasApprovedRecord(q)

\* C2 as claimed: without an approved record, the status is "Ready for
\* Review" exactly when no given amount is recorded (whatever its value, 0
\* included), no funding status is recorded, at least one reviewer is
\* assigned and the substantive submissions are at least the assigned
\* reviewers.
C2_ReadyNeverWithAmount ==
    [][trkLabel' # trkLabel =>
        \A p \in DOMAIN trkLabel' :
            ~HasApprovedRecord(p) =>
                ((trkLabel'[p] = "Ready for Review") <=>
                    /\ ~AmountRecorded(p)
                    /\ ~StatusRecorded(p)
                    /\ AssignedCount(p) >= 1
                    /\ SubstantiveCount(p) >= AssignedCount(p))]_vars

\* C2 amended: without an approved record, the status is "Ready for Review"
\* exactly when no positive given amount is recorded (an amount of 0 counts
\* as empty), no funding status is recorded, at least one reviewer is
\* assigned and the substantive submissions are at least the assigned
\* reviewers.
C2_ReadyIffNoPositiveAmount ==
    [][trkLabel' # trkLabel =>
        \A p \in DOMAIN trkLabel' :
            ~HasApprovedRecord(p) =>
                ((trkLabel'[p] = "Ready for Review") <=>
                    /\ ~PositiveAmountRecorded(p)
                    /\ ~StatusRecorded(p)
                    /\ AssignedCount(p) >= 1
                    /\ SubstantiveCount(p) >= AssignedCount(p))]_vars

C2_Witness ==
    \E p \in DOMAIN trkLabel :
        /\ trkLabel[p] = "Ready for Review"
        /\ AmountRecorded(p)
        /\ AssignedCount(p) = 2 /\ SubstantiveCount(p) = 2

\* C3: the rules apply in priority order. Without an approved record, a
\* project with no assigned reviewer is "Unassigned" even when a funding
\* status is recorded; with at least one reviewer it is "Waiting Approval"
\* exactly when a funding status is recorded; and it is "Under Review" only
\* when no earlier rule matches.
C3_PriorityOrder ==
    [][trkLabel' # trkLabel =>
        \A p \in DOMAIN trkLabel' :
            ~HasApprovedRecord(p) =>
                /\ AssignedCount(p) = 0 => trkLabel'[p] = "Unassigned"
                /\ AssignedCount(p) >= 1 =>
                      ((trkLabel'[p] = "Waiting Approval") <=> StatusRecorded(p))
                /\ trkLabel'[p] = "Under Review" =>
                      /\ AssignedCount(p) >= 1
                      /\ ~StatusRecorded(p)
                      /\ ~(~AmountRecorded(p)
                           /\ SubstantiveCount(p) >= AssignedCount(p))]_vars

C3_Witness ==
    \E p \in DOMAIN trkLabel, q \in DOMAIN trkLabel :
        /\ trkLabel[p] = "Unassigned" /\ StatusRecorded(p)
        /\ trkLabel[q] = "Waiting Approval"
        /\ SubstantiveCount(q) >= AssignedCount(q)

(***************************************************************************)
(* Automatic assignment: properties of runAutoAssign                       *)
(***************************************************************************)
\* the visible proposal identities of the dataset and their first visible row
VisibleIds == {tab.data[i].name : i \in {j \in DOMAIN tab.data : ~tab.data[j].hidden}} \ {""}

FirstRow(p) ==
    CHOOSE i \in DOMAIN tab.data :
        /\ tab.data[i].name = p /\ ~tab.data[i].hidden
        /\ \A j \in 1..(i - 1) : ~(tab.data[j].name = p /\ ~tab.data[j].hidden)

\* the distinct dates entered, and the d-th of them in calendar order
EnteredDates == Range(run.rawDates) \ {0}

DateAt(d) ==
    CHOOSE x \in EnteredDates : Cardinality({y \in EnteredDates : y < x}) = d - 1

DueCount(d) == Cardinality({p \in VisibleIds : proposalDue[p] = DateAt(d)})

CeilDiv(a, b) == (a + b - 1) \div b

LoopDone == run.pc = "loop" /\ run.i > Len(run.projects)

DueNonDecreasing ==
    \A p \in VisibleIds, q \in VisibleIds :
        FirstRow(p) < FirstRow(q) => proposalDue[p] <= proposalDue[q]

\* C4 as claimed: at the end of the loop of a run over P visible projects and
\* D distinct dates, the due dates do not decrease in row order and each of
\* the dates 1..D-1 is the due date of exactly ceil(P/D) projects.
C4_EveryDateFull ==
    LoopDone =>
        LET P == Cardinality(VisibleIds)
            D == Cardinality(EnteredDates)
        IN /\ DueNonDecreasing
           /\ \A d \in 1..(D - 1) : DueCount(d) = CeilDiv(P, D)

\* C4 amended: the due dates do not decrease in row order, and with
\* c = ceil(P/D) each date d of 1..D-1 is the due date of the next c
\* projects as long as c are left, of the ones left when fewer are, and of
\* none when none is left: min(c, max(0, P - (d-1)c)) projects. The last
\* date is the due date of the max(0, P - (D-1)c) projects that remain.
C4_ChunksOfCeil ==
    LoopDone =>
        LET P == Cardinality(VisibleIds)
            D == Cardinality(EnteredDates)
            c == CeilDiv(P, D)
            left(d) == IF P - (d - 1) * c > 0 THEN P - (d - 1) * c ELSE 0
        IN /\ DueNonDecreasing
           /\ \A d \in 1..(D - 1) : DueCount(d) = (IF left(d) < c THEN left(d) ELSE c)
           /\ DueCount(D) = left(D)

C4_Witness ==
    /\ LoopDone
    /\ Cardinality(VisibleIds) = 3 /\ Cardinality(EnteredDates) = 2
    /\ DueCount(1) = 2 /\ DueCount(2) = 1
    /\ Len(tab.data) > 3

\* the assignments a reviewer has received so far in the run
LoadOf(r) ==
    Cardinality({x \in (DOMAIN run.newAssignments) \X (1..run.reviewerCount) :
                    /\ x[2] \in DOMAIN run.newAssignments[x[1]]
                    /\ run.newAssignments[x[1]][x[2]] = r})

PoolDistinct ==
    \A a \in DOMAIN run.reviewerPool, b \in DOMAIN run.reviewerPool :
        a # b => run.reviewerPool[a] # run.reviewerPool[b]

\* C5: in a run whose pool holds n distinct names, after every proposal (j
\* proposals done, the last one included) no reviewer's load exceeds the
\* least load in the pool by more than ceil(jk/n) - floor(jk/n): the loads
\* never differ by more than 1 and are equal when n divides jk.
C5_BalanceBound ==
    (run.pc = "loop" /\ PoolDistinct) =>
        LET n == Len(run.reviewerPool)
            total == (run.i - 1) * run.reviewerCount
            slack == CeilDiv(total, n) - (total \div n)
        IN \A r \in Range(run.reviewerPool), m \in Range(run.reviewerPool) :
               LoadOf(r) - LoadOf(m) <= slack

C5_Witness ==
    /\ LoopDone /\ PoolDistinct
    /\ Len(run.reviewerPool) = 3 /\ run.reviewerCount = 2 /\ Len(run.projects) = 3
    /\ \A r \in Range(run.reviewerPool) : LoadOf(r) = 2

\* C6: for any pool as typed (names are not de-duplicated), every proposal
\* receives exactly k reviewer names, none of them twice, and every chosen
\* reviewer's load before the choice is at most the load of every pool
\* member that is not chosen.
C6_DistinctLeastLoaded ==
    [][(run.pc = "loop" /\ run'.pc = "loop" /\ run'.i = run.i + 1) =>
        LET reviewers == run'.newAssignments[run.projects[run.i]]
        IN /\ Len(reviewers) = run.reviewerCount
           /\ \A a \in DOMAIN reviewers, b \in DOMAIN reviewers :
                  a # b => reviewers[a] # reviewers[b]
           /\ \A c \in Range(reviewers), m \in Range(run.reviewerPool) \ Range(reviewers) :
                  run.assignCounts[c] <= run.assignCounts[m]]_vars

\* the form as the claim reads it
NoParseableDate(rawDates) == \A i \in DOMAIN rawDates : rawDates[i] = 0

FewerNamesThanCount(countInput, poolRaw) ==
    Cardinality({i \in DOMAIN poolRaw : poolRaw[i] # ""}) < reviewerCountOf(countInput)

NoVisibleProject ==
    \A i \in DOMAIN tab.data : tab.data[i].hidden \/ tab.data[i].name = ""

\* C7: a click on #auto-run with no parseable meeting date, with fewer pool
\* names than reviewers per proposal or with no visible project reports an
\* error and writes nothing: app.assignments, app.proposalDue and
\* app.autoAssignConfig stay, no run starts and no storage write is issued.
C7_InvalidFormWritesNothing ==
    [][\A d \in SpecRawDates, c \in SpecCounts, r \in SpecPools :
          (/\ RunAutoAssign(d, c, r)
           /\ (NoParseableDate(d) \/ FewerNamesThanCount(c, r) \/ NoVisibleProject))
          => /\ toast' \in {ErrNoDates, ErrPool, ErrNoTab, ErrNoMatch, ErrNoProjects}
             /\ UNCHANGED <<assignments, proposalDue, autoAssignConfig, run, pending,
                            dbAssignments, dbDue>>]_vars

C7_Witness ==
    /\ toast = ErrNoProjects
    /\ tab.data # <<>>
    /\ assignments # EmptyMap /\ dbDue # EmptyMap
    /\ pending = <<>> /\ run.pc = "idle"

\* C8: after a run has completed, the assignment map in storage is the map
\* the run computed: loadAssignments returns the same map as app.assignments,
\* with no entry left from before the run.
C8_StoredEqualsComputed ==
    toast = MsgDone => loadAssignments(dbAssignments) = assignments

\* C9: when a storage write of a run fails (Promise.all(dueSaves) or
\* saveAssignments rejects) and no other invocation is in flight,
\* app.proposalDue and app.assignments are as the run found them.
C9_FailureRestoresMaps ==
    [][(/\ Len(pending) = 1
        /\ \/ \E landed \in SUBSET (1..Len(tab.data)) : DueSavesReject(landed)
           \/ SaveAssignmentsReject)
       => /\ proposalDue' = entryMaps.due
          /\ assignments' = entryMaps.assignments]_vars

\* C10: at most one runAutoAssign invocation is executing or suspended at an
\* await at any time.
C10_RunsNeverOverlap ==
    Len(pending) + (IF run.pc = "idle" THEN 0 ELSE 1) <= 1

(***************************************************************************)
(* Match column: properties of autoDetectMatchColumn                       *)
(***************************************************************************)
\* the cells of the dataset's column h, the non-empty ones
CellsOf(h) == {c \in {<<i, dataset.data[i][h]>> : i \in DOMAIN dataset.data} : c[2] # ""}

\* at least 80% of the non-empty cells of column h are distinct values
MostlyUnique(h) ==
    /\ CellsOf(h) # {}
    /\ 5 * Cardinality({c[2] : c \in CellsOf(h)}) >= 4 * Cardinality(CellsOf(h))

HasProjectNameColumn ==
    /\ dataset.exists
    /\ "Project Name" \in Range(dataset.headers)
    /\ MostlyUnique("Project Name")

\* C11 as claimed: a dataset with a header "Project Name" whose column holds
\* at least 80% unique non-empty values gets "Project Name" as its detected
\* match column, whatever the other headers and columns are.
C11_ProjectNameDetected ==
    HasProjectNameColumn => dataset.matchColumn = "Project Name"

\* C11 amended: such a dataset gets "Project Name" as its detected match
\* column when no cell of that column looks like a file or a URL and no other
\* header contains a name hint.
C11_ProjectNameDetectedAlone ==
    (/\ HasProjectNameColumn
     /\ \A c \in CellsOf("Project Name") : ~looksLikeFilename(c[2]) /\ ~looksLikeUrl(c[2])
     /\ \A h \in Range(dataset.headers) \ {"Project Name"} : ~hasNameHint(h))
    => dataset.matchColumn = "Project Name"

C11_Witness ==
    /\ HasProjectNameColumn
    /\ dataset.headers = <<"Project Name", "Budget">>
    /\ Cardinality(CellsOf("Project Name")) = 5
    /\ Cardinality({c[2] : c \in CellsOf("Project Name")}) = 4
    /\ \A c \in CellsOf("Project Name") : ~looksLikeFilename(c[2])
    /\ Cardinality({c[2] : c \in CellsOf("Budget")}) = 5
    /\ \A c \in CellsOf("Budget") : ~looksLikeFilename(c[2])
    /\ Len(surveys) = 2
    /\ dataset.matchColumn = "Project Name"

(***************************************************************************)
(* Match column of a dataset: properties under SpecMatch                   *)
(***************************************************************************)
\* C12: after any sequence of uploadXLSX, replaceXLSX, setMatchColumn, lock
\* and unlock, the match column of the dataset is empty or is one of the
\* current headers of the dataset.
C12_MatchColumnIsHeader ==
    dataset.exists =>
        \/ dataset.matchColumn = ""
        \/ dataset.matchColumn \in Range(dataset.headers)

\* after an earlier change of the match column, setMatchColumn has turned
\* down a request for "Budget", which is not a header of the dataset
C12_Witness ==
    /\ dataset.exists
    /\ matchOp.op = "setMatchColumn"
    /\ toast = MsgColumnNotFound("Budget")
    /\ "Budget" \notin Range(dataset.headers)
    /\ Len(dataset.matchHistory) = 1
    /\ dataset.matchColumn \in Range(dataset.headers)
    /\ dataset.matchColumn # dataset.matchHistory[1].to

\* C13: the match column of a locked dataset changes only in a handler in
\* which the user accepted the unlock confirmation (the Unlock button
\* unlocks the dataset first; setMatchColumn asks by itself), and after
\* uploadXLSX, replaceXLSX or a setMatchColumn call with force: false that
\* changed the column the dataset is locked.
C13_LockedColumnNeedsUnlock ==
    [][/\ (/\ dataset.exists
           /\ dataset.matchColumnLocked
           /\ dataset'.matchColumn # dataset.matchColumn)
          => matchOp'.unlockConfirmed
       /\ (\/ matchOp'.op \in {"uploadXLSX", "replaceXLSX"}
           \/ /\ matchOp'.op = "setMatchColumn"
              /\ dataset.exists
              /\ dataset'.matchHistory # dataset.matchHistory)
          => dataset'.matchColumnLocked]_vars

\* C14: every change of the match column after the initial selection appends
\* exactly one history entry holding the prior and the new column, entries
\* are never removed or modified, and the new column of the last entry is
\* the current match column.
C14_HistoryRecordsEveryChange ==
    [][dataset.exists =>
          LET old == dataset.matchHistory
              new == dataset'.matchHistory
          IN /\ dataset'.matchColumn # dataset.matchColumn =>
                   /\ Len(new) = Len(old) + 1
                   /\ new[Len(new)].from = dataset.matchColumn
                   /\ new[Len(new)].to = dataset'.matchColumn
             /\ Len(new) >= Len(old)
             /\ SubSeq(new, 1, Len(old)) = old
             /\ Len(new) > 0 => new[Len(new)].to = dataset'.matchColumn]_vars

(***************************************************************************)
(* Accounting code: properties of detectSpeedtypeFromRow under SpecSpeed   *)
(***************************************************************************)
\* s is a string of exactly 8 digits whose first digit is 1
IsCode(s) ==
    /\ Len(s) = 8
    /\ s[1] = "1"
    /\ \A i \in 1..8 : s[i] \in Digits

\* the substrings of 8 digits starting with 1 that the text s contains
CodesIn(s) ==
    {SubSeq(s, i, i + 7) : i \in {j \in 1..(Len(s) - 7) : IsCode(SubSeq(s, j, j + 7))}}

\* the codes the cells of a row contain
CodesInRow(obj) == UNION {CodesIn(obj[i].val) : i \in DOMAIN obj}

\* C15: for every data row, approved row and explicit column name,
\* detectSpeedtypeFromRow returns the empty string or a string of exactly 8
\* digits whose first digit is 1.
C15_EmptyOrCode ==
    speedIn.called => (speedtype = <<>> \/ IsCode(speedtype))

\* the "Account" cell holds 8 digits that start with 2, a candidate that
\* fails the pattern, and the code was then found between letters in "Notes"
C15_Witness ==
    /\ speedIn.called
    /\ rowGet(speedIn.dataRow, "Account") = T_TWO
    /\ rowGet(speedIn.dataRow, "Notes") = T_EMB
    /\ speedIn.extraColName = "Notes"
    /\ speedtype = T_CODE

\* C16: for every row whose text contains a substring of 8 digits starting
\* with 1, detectSpeedtypeFromRow returns such a substring of the row; and
\* when neither the row nor the approved row contains one, it returns the
\* empty string.
C16_ExactlyTheEmbeddedCode ==
    speedIn.called =>
        /\ CodesInRow(speedIn.dataRow) # {} => speedtype \in CodesInRow(speedIn.dataRow)
        /\ (CodesInRow(speedIn.dataRow) = {} /\ CodesInRow(speedIn.approvedRow) = {})
              => speedtype = <<>>

(***************************************************************************)
(* Previous cycles: properties of renderPreviousYears under SpecPrev       *)
(***************************************************************************)
\* the rows of all datasets, as <<tab, row>> positions
AllRows == {tr \in (DOMAIN tabs) \X (1..MaxPrevRows + 1) : tr[2] \in DOMAIN tabs[tr[1]].data}

\* row tr is shown in the list at position k
ListedAt(tr, k) ==
    /\ prevMatches.list[k].cycle = tabs[tr[1]].name
    /\ prevMatches.list[k].projectName = rawNameOf(tabs[tr[1]], tr[2])

\* the words of a normalized name: its maximal substrings without a space
Words(a) ==
    {SubSeq(a, ij[1], ij[2]) :
        ij \in {p \in (DOMAIN a) \X (DOMAIN a) :
                  /\ p[1] <= p[2]
                  /\ \A k \in p[1]..p[2] : a[k] # " "
                  /\ (p[1] = 1 \/ a[p[1] - 1] = " ")
                  /\ (p[2] = Len(a) \/ a[p[2] + 1] = " ")}}

Similar(tr) ==
    LET q == Words(normalizeName(prevProject))
        n == Words(normalizeName(rawNameOf(tabs[tr[1]], tr[2])))
    IN /\ tabs[tr[1]].id # selectedId
       /\ n # {}
       /\ 10 * Cardinality(q \cap n) >= 7 * Cardinality(q \cup n)

\* C18: a row is listed as a cross-cycle match if and only if it belongs to
\* a dataset other than the active one, has a non-empty normalized name and
\* the token-set Jaccard similarity between its normalized name and that of
\* the query is at least 7/10; the list has one entry per such row.
C18_ListedIffSimilar ==
    prevMatches.state # "idle" =>
        /\ \A tr \in AllRows :
              (\E k \in DOMAIN prevMatches.list : ListedAt(tr, k)) <=> Similar(tr)
        /\ Len(prevMatches.list) = Cardinality({tr \in AllRows : Similar(tr)})

\* the query has 8 words; the 2023 row shares 7 of them and has 2 others
\* (7/10) and is listed, the row of the active dataset with the name of the
\* query is not
C18_Witness ==
    /\ prevMatches.state = "list"
    /\ prevProject = N_EIGHT
    /\ selectedId = "dt_1"
    /\ Len(tabs[1].data) = 1
    /\ rawNameOf(tabs[1], 1) = N_EIGHT
    /\ prevMatches.list = <<[cycle |-> "2023", projectName |-> N_NINE,
                             score |-> [num |-> 7, den |-> 10]]>>

(***************************************************************************)
(* Approvals: properties of the Approve / Unapprove button under           *)
(* SpecApprove                                                             *)
(***************************************************************************)
\* the number of records of the approved list with "Project Name" p
RecordsOf(rows, p) == Cardinality({i \in DOMAIN rows : rows[i] = p})

\* C19: every activation of the Approve / Unapprove handler flips the
\* presence of the approved record of its proposal and of no other, also
\* while earlier saves are pending; nothing else changes the list; and the
\* list never holds two records with the same "Project Name". Two
\* activations for a proposal therefore restore its presence.
C19_ToggleFlipsPresence ==
    /\ [](\A p \in ApproveProjects : RecordsOf(approved, p) <= 1)
    /\ [][IF Len(approveSaves') > Len(approveSaves)
          THEN \A p \in ApproveProjects :
                  RecordsOf(approved', p) =
                     IF p = approveBtn.project THEN 1 - RecordsOf(approved, p)
                     ELSE RecordsOf(approved, p)
          ELSE approved' = approved]_vars

\* Approve and then Unapprove were clicked for A while the first save was
\* still pending: both saves wait, and A is absent again
C19_Witness ==
    /\ approved = <<>>
    /\ dbApproved = <<>>
    /\ Len(approveSaves) = 2
    /\ approveSaves[1] = [project |-> "A", rows |-> <<"A">>, isApproved |-> TRUE]
    /\ approveSaves[2] = [project |-> "A", rows |-> <<>>, isApproved |-> FALSE]

(***************************************************************************)
(* Reminder emails: properties of sendTrackerReminderEmails under          *)
(* SpecEmail                                                               *)
(***************************************************************************)
\* C20: at most one reminder-email request is in flight at any time; while
\* an earlier invocation is pending a new invocation sends no request; and
\* when the pending request succeeds or fails the in-flight guard is
\* released and the Email Reminders button is enabled again.
C20_OneRequestInFlight ==
    /\ [](Len(emailReq) <= 1 /\ (sendInFlight <=> Len(emailReq) = 1))
    /\ [][/\ sendInFlight => Len(emailReq') <= Len(emailReq)
          /\ Len(emailReq') < Len(emailReq) =>
                /\ ~sendInFlight'
                /\ emailBtn' = [disabled |-> FALSE, text |-> "Email Reminders"]]_vars

\* the request is in flight, the button is disabled, and a second click has
\* been answered with the "already being sent" message
C20_Witness ==
    /\ sendInFlight
    /\ Len(emailReq) = 1
    /\ emailReq[1].pc = "fetch"
    /\ emailBtn = [disabled |-> TRUE, text |-> "Sending..."]
    /\ toast = MsgAlreadySending

(***************************************************************************)
(* Automatic assignment: the rotation of getNextCombo under SpecAssign     *)
(***************************************************************************)
\* the assignments reviewer r has received before the j-th proposal of the run
LoadBefore(r, j) ==
    Cardinality({x \in (1..(j - 1)) \X (1..run.reviewerCount) :
                    /\ x[2] \in DOMAIN run.newAssignments[run.projects[x[1]]]
                    /\ run.newAssignments[run.projects[x[1]]][x[2]] = r})

\* all pool members are tied on load before the j-th proposal
TiedBefore(j) ==
    \A r \in Range(run.reviewerPool), m \in Range(run.reviewerPool) :
        LoadBefore(r, j) = LoadBefore(m, j)

\* the reviewer chosen first for the j-th proposal
FirstChosen(j) == run.newAssignments[run.projects[j]][1]

\* the proposals of the finished loop before which all pool members are tied
FullTies == {j \in 1..Len(run.projects) : TiedBefore(j)}

\* C21 as claimed: in a run over a pool of two or more distinct names in
\* which all pool members are tied on load before two or more proposals,
\* the reviewer chosen first is not the same pool member at every such tie.
C21_TiesNeverSameReviewer ==
    (LoopDone /\ PoolDistinct /\ Len(run.reviewerPool) >= 2
        /\ Cardinality(FullTies) >= 2) =>
        \E a \in FullTies, b \in FullTies : FirstChosen(a) # FirstChosen(b)

\* C21: the priority order rotates by one position after every proposal:
\* whenever all n members of a pool of distinct names are tied on load
\* before the j-th proposal, the reviewer chosen first is the pool member
\* at position (n - (j - 1) mod n) mod n (counted from 0), so two such ties
\* favor different reviewers exactly when their positions in the run
\* differ modulo n.
C21_TieFavoursRotatedMember ==
    (run.pc = "loop" /\ PoolDistinct) =>
        LET n == Len(run.reviewerPool)
        IN /\ \A j \in 1..(run.i - 1) :
                  TiedBefore(j) =>
                      FirstChosen(j) = run.reviewerPool[((n - ((j - 1) % n)) % n) + 1]
           /\ \A a \in 1..(run.i - 1), b \in 1..(run.i - 1) :
                  (TiedBefore(a) /\ TiedBefore(b)) =>
                      (FirstChosen(a) # FirstChosen(b) <=> (a - b) % n # 0)

\* a pool of three, one reviewer per proposal, four proposals: all are tied
\* before the first and the fourth proposal and the first pool member is
\* chosen both times; it was not chosen for the second and third proposal
C21_Witness ==
    /\ LoopDone /\ PoolDistinct
    /\ Len(run.reviewerPool) = 3 /\ run.reviewerCount = 1 /\ Len(run.projects) = 4
    /\ FullTies = {1, 4}
    /\ FirstChosen(1) = run.reviewerPool[1] /\ FirstChosen(4) = run.reviewerPool[1]
    /\ FirstChosen(2) = run.reviewerPool[3] /\ FirstChosen(3) = run.reviewerPool[2]

(***************************************************************************)
(* Match column detection: edge cases of autoDetectMatchColumn under       *)
(* SpecDetect                                                              *)
(***************************************************************************)
\* the uploaded dataset has headers and no rows
HeadersButNoRows ==
    dataset.exists /\ dataset.headers # <<>> /\ dataset.data = <<>>

\* the headers that contain a name hint, as positions
HintedHeaders == {i \in DOMAIN dataset.headers : hasNameHint(dataset.headers[i])}

\* C22 as claimed: for a dataset that has headers but zero rows the detected
\* match column is the first header, without regard to header names.
C22_ZeroRowsFirstHeader ==
    HeadersButNoRows => dataset.matchColumn = dataset.headers[1]

\* C22: for a dataset that has headers but zero rows the headers are scored
\* by their names alone: the detected match column is the first header that
\* contains a name hint, and the first header when no header contains one.
C22_ZeroRowsFirstHinted ==
    HeadersButNoRows =>
        IF HintedHeaders = {}
        THEN dataset.matchColumn = dataset.headers[1]
        ELSE \E i \in HintedHeaders :
                /\ \A j \in HintedHeaders : i <= j
                /\ dataset.matchColumn = dataset.headers[i]

\* no rows, the second header is the only one with a name hint, and it is
\* the detected match column
C22_Witness ==
    /\ HeadersButNoRows
    /\ dataset.headers = <<"Column 1", "Title">>
    /\ dataset.matchColumn = "Title"

\* the non-empty cells of column h that look like filenames or URLs
FileCellsOf(h) == {c \in CellsOf(h) : looksLikeFilename(c[2]) \/ looksLikeUrl(c[2])}

\* every header's column is file-like: more than 0.6 of its non-empty cells
\* look like filenames or URLs
AllFileLike ==
    /\ dataset.exists
    /\ dataset.headers # <<>>
    /\ \A h \in Range(dataset.headers) :
          10 * Cardinality(FileCellsOf(h)) > 6 * Cardinality(CellsOf(h))

\* the score of the i-th header of the dataset
ScoreAt(i) == scoreOf(dataset, surveys, dataset.headers[i])

SplitCodeInFreeText ==
    /\ speedIn.called
    /\ speedIn.extraColName = ""
    /\ rowGet(speedIn.dataRow, "Notes") = T_SPLIT
    /\ rowGet(speedIn.dataRow, "Account") \in {<<>>, <<"x">>}
    /\ rowGet(speedIn.approvedRow, "Speedtype") = <<>>

\* C24 as claimed: for a row whose free text holds "Acct: 1 2345678 misc",
\* with no explicit column chosen and no approved code,
\* detectSpeedtypeFromRow returns the eight digits joined, "12345678".
C24_SplitCodeJoined == SplitCodeInFreeText => speedtype = T_CODE

\* C24: for such a row detectSpeedtypeFromRow returns the empty string: the
\* scan of the joined cell values only accepts eight consecutive digits.
C24_SplitCodeNotFound == SplitCodeInFreeText => speedtype = <<>>

C24_Witness ==
    /\ SplitCodeInFreeText
    /\ rowGet(speedIn.dataRow, "Account") = <<>>
    /\ matchBare(joinValues(speedIn.dataRow)) = <<>>
    /\ speedtype = <<>>

(***************************************************************************)
(* Detail modal: the proposal its handlers act on, under SpecDetail        *)
(***************************************************************************)
\* C25: whenever Approve / Unapprove or Save Amount & Status is activated
\* while the detail modal shows proposal P as its title, the approved list
\* is toggled for P and the amount and status are stored for P, and for no
\* other proposal.
C25_HandlersActOnShownProposal ==
    [][/\ Len(approveSaves') > Len(approveSaves) =>
             approveSaves'[Len(approveSaves')].project = dtTitle
       /\ (Len(metaSaves') > Len(metaSaves)
               /\ metaSaves'[Len(metaSaves')].kind = "amount") =>
             /\ metaSaves'[Len(metaSaves')].project = dtTitle
             /\ \A p \in DOMAIN proposalAmounts' \ {dtTitle} :
                    /\ p \in DOMAIN proposalAmounts
                    /\ proposalAmounts'[p] = proposalAmounts[p]]_vars

\* C26: every note text is stored, in app.proposalNotes and through
\* saveProposalField, under the proposal the modal showed and in the
\* dataset that was selected when the text was typed.
C26_NoteStoredUnderItsProposal ==
    [][(Len(metaSaves') > Len(metaSaves)
           /\ metaSaves'[Len(metaSaves')].kind = "notes") =>
          LET s == metaSaves'[Len(metaSaves')]
          IN /\ s.project = s.typedFor
             /\ s.tabId = s.typedIn
             /\ proposalNotes' = Put(proposalNotes, s.typedFor, s.val)]_vars

(***************************************************************************)
(* Dataset switches and reloads: properties under SpecSwitch and SpecClear *)
(***************************************************************************)
\* C27: whenever no dataset load is pending, the surveys, the assignment
\* map, the approved records and the proposal meta in memory are the ones
\* stored for the currently selected dataset.
C27_LoadedDataOfSelectedDataset ==
    switches = <<>> =>
        /\ surveys = loadSurveys(selectedId)
        /\ assignments = loadAssignmentsOf(selectedId)
        /\ approved = loadApprovedData(selectedId)
        /\ proposalAmounts = loadProposalMeta(selectedId).amounts
        /\ proposalNotes = loadProposalMeta(selectedId).notes
        /\ proposalStatus = loadProposalMeta(selectedId).status
        /\ proposalDue = loadProposalMeta(selectedId).due

\* C28: when the save of a confirmed clearAllAssignments has completed,
\* loading the assignments of the dataset from storage returns the empty
\* map, and a reload that completes after it leaves every proposal
\* unassigned.
C28_ClearedStaysCleared ==
    [][/\ (Len(clearSaves') < Len(clearSaves) /\ toast' = MsgCleared) =>
             loadAssignmentsOf(selectedId)' = EmptyMap
       /\ (toast = MsgCleared /\ Len(switches') < Len(switches)
               /\ toast' = MsgReloaded("2022")) =>
             assignments' = EmptyMap]_vars

\* C29: whatever text the "Speedtype" field of an approved record holds, the
\* Speedtype cell exportApproved writes for it is empty or is 8 digits
\* starting with 1.
C29_ExportedEmptyOrCode ==
    exportIn.called => (exportOut = <<>> \/ VALID(exportOut))

\* C30: a setMatchColumn call that returns without changing the match column
\* (the column is not among the headers, or the user declines a confirmation)
\* leaves the matchColumnLocked flag, the match column and the change history
\* of the dataset as they were before the call.
C30_RefusedChangeWritesNothing ==
    [][(/\ \E column \in MatchColumns, okUnlock, okContent, saved \in BOOLEAN :
              SetMatchColumn(column, FALSE, okUnlock, okContent, saved)
        /\ dataset'.matchColumn = dataset.matchColumn)
          => /\ dataset'.matchColumnLocked = dataset.matchColumnLocked
             /\ dataset'.matchHistory = dataset.matchHistory]_vars

====
